---- MODULE Spec2Model ----
(***************************************************************************)
(* Transactional outbox / inbox relay of the order and warehouse services. *)
(*                                                                         *)
(* The outbox and inbox tables are functions from the SERIAL id to a row.  *)
(* A row's locked_at is <<>> for NULL and otherwise <<age>>, the age        *)
(* NOW() - locked_at in minutes, saturating just above the five-minute     *)
(* lease interval: every statement of the stores only compares that age    *)
(* to the interval.                                                        *)
(***************************************************************************)
EXTENDS Integers, Sequences, FiniteSets, TLC

VARIABLES
    outbox,     \* outbox table of the order service: id -> row
    owk,        \* outbox workers: pc, leased batch, result of processMessage
    brokerUp,   \* whether the broker accepts Publish calls
    outages,    \* number of broker outages so far
    pubOk,      \* per outbox id: Publish calls that returned nil
    pubFail,    \* per outbox id: Publish calls that returned an error
    inbox,      \* inbox table of the order service: id -> row
    iwk,        \* inbox workers: pc, leased batch, result of the handler
    hcalls,     \* per inbox id: invocations of a registered event handler
    whinbox,    \* inbox table of the warehouse service: id -> row
    ready,      \* per message id: deliveries waiting in the broker queue
    sends,      \* per message id: times a producer published it
    cons,       \* consumers (one Subscribe loop each): pc, delivery in hand
    wcalls,     \* per message id: invocations of the guarded handler
    acks,       \* per message id: deliveries acknowledged
    dupAcks,    \* per message id: deliveries acknowledged as duplicates
    rejects,    \* deliveries rejected without requeue
    call,       \* the last store call made directly: arguments and result
    tx,         \* per caller: its lease statement in progress or completed
    main,       \* the order service's main: position, configuration, broker client
    inboxWorkers,   \* main's slice of inbox workers: goroutine position, stopCh
    outboxWorkers,  \* main's slice of outbox workers: the same, and the publisher
    inventory,      \* warehouse service: product id -> item (Quantity, Reserved)
    inventoryMu,    \* the request holding inventoryMu, or 0
    reserve,        \* ReserveStock requests in flight: pc, body, response
    once,           \* metrics package: sync.Once (done flag, holder of its mutex)
    registry,       \* the default Prometheus registry: collector -> registrations
    inits           \* callers of InitMetrics: pc, next collector to register

outboxVars == <<outbox, owk, brokerUp, outages, pubOk, pubFail>>
inboxVars == <<inbox, iwk, hcalls>>
guardVars == <<whinbox, ready, sends, cons, wcalls, acks, dupAcks, rejects>>
storeVars == <<call, tx>>
serviceVars == <<main, inboxWorkers, outboxWorkers>>
inventoryVars == <<inventory, inventoryMu, reserve>>
metricsVars == <<once, registry, inits>>
vars == <<outboxVars, inboxVars, guardVars, storeVars, serviceVars, inventoryVars, metricsVars>>

\* What the steps of one subsystem leave alone.
OutboxOnly == UNCHANGED <<inboxVars, guardVars, storeVars, serviceVars, inventoryVars, metricsVars>>
InboxOnly == UNCHANGED <<outboxVars, guardVars, storeVars, serviceVars, inventoryVars, metricsVars>>
GuardOnly == UNCHANGED <<outboxVars, inboxVars, storeVars, serviceVars, inventoryVars, metricsVars>>

NULL == "NULL"

\* ------------------------------------------------------------- bounds
MaxRows == 2
MaxOutages == 1
MaxMessages == 2
MaxSends == 2
ClockStep == 3
BatchSize == 2

\* ------------------------------------------------- program constants
LeaseIntervalMinutes == 5
ResetTimeoutMinutes == 5
MaxRetries == 3

OutboxWorkers == {"ow1", "ow2"}
InboxWorkers == {"iw1", "iw2"}

\* ------------------------------------------------------------ helpers
Min(a, b) == IF a < b THEN a ELSE b

\* ORDER BY created_at ASC LIMIT n over the candidate ids S (ids are SERIAL
\* and created_at defaults to the insertion instant, so id order is
\* created_at order).
OldestN(S, n) == {r \in S : Cardinality({q \in S : q < r}) < n}

\* The orders in which RETURNING may hand back the updated rows.
Perms(S) ==
    {p \in [1..Cardinality(S) -> S] : \A i, j \in 1..Cardinality(S) : i # j => p[i] # p[j]}

NullTime == <<>>
Now == <<0>>
OlderThan(locked_at, minutes) == locked_at # NullTime /\ locked_at[1] > minutes

\* The clock advances: every lock grows older.
Older(t) ==
    [r \in DOMAIN t |->
        IF t[r].locked_at = NullTime THEN t[r]
        ELSE [t[r] EXCEPT !.locked_at = <<Min(@[1] + ClockStep, LeaseIntervalMinutes + 1)>>]]

\* --------------------------------------------------------- OutboxStore
OutboxRow(decodable) ==
    [status |-> "PENDING", retry_count |-> 0, locked_at |-> NullTime,
     locked_by |-> NULL, error |-> NULL, decodable |-> decodable]

OutboxStore_Save(t, decodable) ==
    (Cardinality(DOMAIN t) + 1) :> OutboxRow(decodable) @@ t

OutboxStore_Eligible_None(t) == {}

\* The WHERE clause of the lease's inner SELECT.
OutboxStore_Eligible(t) ==
    {r \in DOMAIN t :
        /\ t[r].status = "PENDING"
        /\ (t[r].locked_at = NullTime \/ OlderThan(t[r].locked_at, LeaseIntervalMinutes))}

OutboxStore_Selected(t, batchSize) == OldestN(OutboxStore_Eligible(t), batchSize)

OutboxStore_GetPendingMessagesForProcessing(t, workerID, batchSize) ==
    [r \in DOMAIN t |->
        IF r \in OutboxStore_Selected(t, batchSize)
        THEN [t[r] EXCEPT !.status = "PROCESSING", !.locked_at = Now, !.locked_by = workerID]
        ELSE t[r]]

OutboxStore_MarkAsPublished_KeepLock(t, id) == [t EXCEPT ![id].status = "PUBLISHED"]

OutboxStore_MarkAsPublished(t, id) ==
    [t EXCEPT ![id].status = "PUBLISHED", ![id].locked_at = NullTime, ![id].locked_by = NULL]

OutboxStore_MarkAsFailed_Published(t, id, errorMsg) ==
    [t EXCEPT ![id].status = "PUBLISHED", ![id].locked_at = NullTime, ![id].locked_by = NULL]

OutboxStore_MarkAsFailed_NoIncrement(t, id, errorMsg) ==
    [t EXCEPT ![id].status = "FAILED", ![id].locked_at = NullTime,
              ![id].locked_by = NULL, ![id].error = errorMsg]

OutboxStore_MarkAsFailed(t, id, errorMsg) ==
    [t EXCEPT ![id].status = "FAILED", ![id].retry_count = @ + 1,
              ![id].locked_at = NullTime, ![id].locked_by = NULL, ![id].error = errorMsg]

OutboxStore_Stuck_AnyAge(t, timeoutMinutes) ==
    {r \in DOMAIN t : t[r].status = "PROCESSING"}

OutboxStore_Stuck(t, timeoutMinutes) ==
    {r \in DOMAIN t : t[r].status = "PROCESSING"
                      /\ OlderThan(t[r].locked_at, timeoutMinutes)}

OutboxStore_ResetStuckMessages_KeepStatus(t, timeoutMinutes) ==
    [r \in DOMAIN t |->
        IF r \in OutboxStore_Stuck(t, timeoutMinutes)
        THEN [t[r] EXCEPT !.locked_by = NULL]
        ELSE t[r]]

OutboxStore_ResetStuckMessages(t, timeoutMinutes) ==
    [r \in DOMAIN t |->
        IF r \in OutboxStore_Stuck(t, timeoutMinutes)
        THEN [t[r] EXCEPT !.status = "PENDING", !.locked_at = NullTime, !.locked_by = NULL]
        ELSE t[r]]

\* -------------------------------------------------------- OutboxWorker
NewOutboxWorker == [pc |-> "new", batch |-> <<>>, res |-> "none"]

\* A business transaction commits an outbox row.
SaveOutbox ==
    /\ Cardinality(DOMAIN outbox) < MaxRows
    /\ \E decodable \in BOOLEAN : outbox' = OutboxStore_Save(outbox, decodable)
    /\ pubOk' = (Cardinality(DOMAIN outbox) + 1) :> 0 @@ pubOk
    /\ pubFail' = (Cardinality(DOMAIN outbox) + 1) :> 0 @@ pubFail
    /\ UNCHANGED <<owk, brokerUp, outages>>
    /\ OutboxOnly

\* Start up to the loop: ResetStuckMessages(ctx, 5), whose error is only logged.
OutboxWorker_Start(w) ==
    /\ owk[w].pc = "new"
    /\ owk' = [owk EXCEPT ![w].pc = "idle"]
    /\ \/ outbox' = OutboxStore_ResetStuckMessages(outbox, ResetTimeoutMinutes)
       \/ UNCHANGED outbox
    /\ UNCHANGED <<brokerUp, outages, pubOk, pubFail>>
    /\ OutboxOnly

\* A tick: the lease at the head of processMessages.
OutboxWorker_processMessages(w) ==
    /\ owk[w].pc = "idle"
    /\ \/ /\ OutboxStore_Selected(outbox, BatchSize) # {}
          /\ outbox' = OutboxStore_GetPendingMessagesForProcessing(outbox, w, BatchSize)
          /\ \E b \in Perms(OutboxStore_Selected(outbox, BatchSize)) :
                owk' = [owk EXCEPT ![w].pc = "publish", ![w].batch = b]
       \/ UNCHANGED <<outbox, owk>>
    /\ UNCHANGED <<brokerUp, outages, pubOk, pubFail>>
    /\ OutboxOnly

\* processMessage on the head of the batch: decode, then Publish.
OutboxWorker_processMessage(w) ==
    /\ owk[w].pc = "publish"
    /\ LET id == Head(owk[w].batch) IN
        \/ /\ ~outbox[id].decodable
           /\ owk' = [owk EXCEPT ![w].pc = "mark", ![w].res = "err"]
           /\ UNCHANGED <<pubOk, pubFail>>
        \/ /\ outbox[id].decodable /\ brokerUp
           /\ pubOk' = [pubOk EXCEPT ![id] = @ + 1]
           /\ owk' = [owk EXCEPT ![w].pc = "mark", ![w].res = "ok"]
           /\ UNCHANGED pubFail
        \/ /\ outbox[id].decodable /\ ~brokerUp
           /\ pubFail' = [pubFail EXCEPT ![id] = @ + 1]
           /\ owk' = [owk EXCEPT ![w].pc = "mark", ![w].res = "err"]
           /\ UNCHANGED pubOk
    /\ UNCHANGED <<outbox, brokerUp, outages>>
    /\ OutboxOnly

OutboxWorker_next(w) ==
    [owk EXCEPT ![w].batch = Tail(@), ![w].res = "none",
                ![w].pc = IF Len(owk[w].batch) > 1 THEN "publish" ELSE "idle"]

\* The store call that follows processMessage, then on to the next row.
OutboxWorker_mark(w) ==
    /\ owk[w].pc = "mark"
    /\ LET id == Head(owk[w].batch) IN
        \/ /\ owk[w].res = "err"
           /\ outbox' = OutboxStore_MarkAsFailed(outbox, id, "err")
        \/ /\ owk[w].res = "ok"
           /\ outbox' = OutboxStore_MarkAsPublished(outbox, id)
    /\ owk' = OutboxWorker_next(w)
    /\ UNCHANGED <<brokerUp, outages, pubOk, pubFail>>
    /\ OutboxOnly

\* The same store call failing with a database error: it is only logged.
OutboxWorker_markDbError(w) ==
    /\ owk[w].pc = "mark"
    /\ owk' = OutboxWorker_next(w)
    /\ UNCHANGED <<outbox, brokerUp, outages, pubOk, pubFail>>
    /\ OutboxOnly

\* The process of a worker disappears.
OutboxWorker_crash(w) ==
    /\ owk[w].pc \in {"idle", "publish", "mark"}
    /\ owk' = [owk EXCEPT ![w].pc = "crashed"]
    /\ UNCHANGED <<outbox, brokerUp, outages, pubOk, pubFail>>
    /\ OutboxOnly

OutboxTimePasses ==
    /\ Older(outbox) # outbox
    /\ outbox' = Older(outbox)
    /\ UNCHANGED <<owk, brokerUp, outages, pubOk, pubFail>>
    /\ OutboxOnly

BrokerDown ==
    /\ brokerUp /\ outages < MaxOutages
    /\ brokerUp' = FALSE /\ outages' = outages + 1
    /\ UNCHANGED <<outbox, owk, pubOk, pubFail>>
    /\ OutboxOnly

BrokerRecovers ==
    /\ ~brokerUp
    /\ brokerUp' = TRUE
    /\ UNCHANGED <<outbox, owk, outages, pubOk, pubFail>>
    /\ OutboxOnly

\* --------------------------------------------- InboxStore (order service)
RegisteredEventTypes == {"order.created", "order.updated", "order.cancelled"}

\* What CreateInboxMessage may be asked to store: the event type and what the
\* registered handler does with this message: it returns an error on every
\* invocation (fails), or on the first `failures` invocations only.
InboxKinds ==
    {[event_type |-> "order.created", fails |-> FALSE, failures |-> 0],
     [event_type |-> "order.created", fails |-> TRUE, failures |-> 0],
     [event_type |-> "unknown.type", fails |-> FALSE, failures |-> 0]}
    \cup {[event_type |-> "order.created", fails |-> FALSE, failures |-> k] :
             k \in 1..(MaxRetries - 1)}

InboxRow(messageID, kind) ==
    [message_id |-> messageID, event_type |-> kind.event_type, fails |-> kind.fails,
     failures |-> kind.failures,
     status |-> "PENDING", retry_count |-> 0, locked_at |-> NullTime,
     locked_by |-> NULL, error |-> NULL]

InboxStore_Exists(t, messageID) == \E r \in DOMAIN t : t[r].message_id = messageID

\* INSERT ... ON CONFLICT (message_id) DO NOTHING
InboxStore_Save(t, messageID, kind) ==
    IF InboxStore_Exists(t, messageID) THEN t
    ELSE (Cardinality(DOMAIN t) + 1) :> InboxRow(messageID, kind) @@ t

\* The error Save returns: rowsAffected == 0 is reported as an error.
InboxStore_SaveResult(t, messageID) ==
    IF InboxStore_Exists(t, messageID) THEN "message already exists" ELSE "nil"

InboxStore_Eligible(t, maxRetries) ==
    {r \in DOMAIN t :
        /\ \/ t[r].status = "PENDING"
           \/ (t[r].status = "FAILED" /\ t[r].retry_count < maxRetries)
        /\ (t[r].locked_at = NullTime \/ OlderThan(t[r].locked_at, LeaseIntervalMinutes))}

InboxStore_Selected(t, batchSize, maxRetries) ==
    OldestN(InboxStore_Eligible(t, maxRetries), batchSize)

InboxStore_GetPendingMessagesForProcessing(t, workerID, batchSize, maxRetries) ==
    [r \in DOMAIN t |->
        IF r \in InboxStore_Selected(t, batchSize, maxRetries)
        THEN [t[r] EXCEPT !.status = "PROCESSING", !.locked_at = Now, !.locked_by = workerID]
        ELSE t[r]]

InboxStore_MarkAsProcessed(t, id) ==
    [t EXCEPT ![id].status = "PROCESSED", ![id].locked_at = NullTime, ![id].locked_by = NULL]

InboxStore_IncrementRetryAndMarkPending_NoIncrement(t, id, errorMsg) ==
    [t EXCEPT ![id].status = "PENDING", ![id].locked_at = NullTime,
              ![id].locked_by = NULL, ![id].error = errorMsg]

InboxStore_IncrementRetryAndMarkPending(t, id, errorMsg) ==
    [t EXCEPT ![id].status = "PENDING", ![id].retry_count = @ + 1,
              ![id].locked_at = NullTime, ![id].locked_by = NULL, ![id].error = errorMsg]

InboxStore_MarkAsFailed(t, id, errorMsg) ==
    [t EXCEPT ![id].status = "FAILED", ![id].retry_count = @ + 1,
              ![id].locked_at = NullTime, ![id].locked_by = NULL, ![id].error = errorMsg]

InboxStore_Stuck(t, timeoutMinutes) ==
    {r \in DOMAIN t : t[r].status = "PROCESSING"
                      /\ OlderThan(t[r].locked_at, timeoutMinutes)}

InboxStore_ResetStuckMessages(t, timeoutMinutes) ==
    [r \in DOMAIN t |->
        IF r \in InboxStore_Stuck(t, timeoutMinutes)
        THEN [t[r] EXCEPT !.status = "PENDING", !.locked_at = NullTime, !.locked_by = NULL]
        ELSE t[r]]

\* --------------------------------------------------------- InboxWorker
NewInboxWorker == [pc |-> "new", batch |-> <<>>, res |-> "none"]

\* The row as RETURNING hands it to the worker: the worker keeps this copy.
InboxMessage(t, id) == [id |-> id, retry_count |-> t[id].retry_count]

MessageHandlerRegistry_HandleMessage_UnknownIsError(row, calls) ==
    IF row.event_type \notin RegisteredEventTypes THEN "err"
    ELSE IF row.fails \/ calls < row.failures THEN "err" ELSE "nil"

\* The registry: an event type nobody registered is answered with nil and no
\* handler runs.
MessageHandlerRegistry_HandleMessage(row, calls) ==
    IF row.event_type \notin RegisteredEventTypes THEN "nil"
    ELSE IF row.fails \/ calls < row.failures THEN "err" ELSE "nil"

InboxWorker_retryExhausted_Always(msg, maxRetries) == TRUE

InboxWorker_retryExhausted_Late(msg, maxRetries) == msg.retry_count >= maxRetries

\* The branch of processMessages after a handler error.
InboxWorker_retryExhausted(msg, maxRetries) == msg.retry_count + 1 >= maxRetries

\* POST /api/inbox stores a message under a fresh uuid.
CreateInboxMessage ==
    /\ Cardinality(DOMAIN inbox) < MaxRows
    /\ \E kind \in InboxKinds :
          inbox' = InboxStore_Save(inbox, Cardinality(DOMAIN inbox) + 1, kind)
    /\ hcalls' = (Cardinality(DOMAIN inbox) + 1) :> 0 @@ hcalls
    /\ UNCHANGED iwk
    /\ InboxOnly

InboxWorker_Start(w) ==
    /\ iwk[w].pc = "new"
    /\ iwk' = [iwk EXCEPT ![w].pc = "idle"]
    /\ \/ inbox' = InboxStore_ResetStuckMessages(inbox, ResetTimeoutMinutes)
       \/ UNCHANGED inbox
    /\ UNCHANGED hcalls
    /\ InboxOnly

\* A tick: the lease at the head of processMessages.
InboxWorker_processMessages(w) ==
    /\ iwk[w].pc = "idle"
    /\ LET sel == InboxStore_Selected(inbox, BatchSize, MaxRetries)
           upd == InboxStore_GetPendingMessagesForProcessing(inbox, w, BatchSize, MaxRetries) IN
        \/ /\ sel # {}
           /\ inbox' = upd
           /\ \E b \in Perms(sel) :
                 iwk' = [iwk EXCEPT ![w].pc = "handle",
                                    ![w].batch = [i \in DOMAIN b |-> InboxMessage(upd, b[i])]]
        \/ UNCHANGED <<inbox, iwk>>
    /\ UNCHANGED hcalls
    /\ InboxOnly

\* w.handler(ctx, msg) on the head of the batch.
InboxWorker_handle(w) ==
    /\ iwk[w].pc = "handle"
    /\ LET id == Head(iwk[w].batch).id IN
        /\ hcalls' = [hcalls EXCEPT ![id] =
                         IF inbox[id].event_type \in RegisteredEventTypes THEN @ + 1 ELSE @]
        /\ iwk' = [iwk EXCEPT ![w].pc = "mark",
                              ![w].res = MessageHandlerRegistry_HandleMessage(inbox[id], hcalls[id])]
    /\ UNCHANGED inbox
    /\ InboxOnly

InboxWorker_next_DropRest(w) ==
    [iwk EXCEPT ![w].batch = <<>>, ![w].res = "none", ![w].pc = "idle"]

InboxWorker_next(w) ==
    [iwk EXCEPT ![w].batch = Tail(@), ![w].res = "none",
                ![w].pc = IF Len(iwk[w].batch) > 1 THEN "handle" ELSE "idle"]

\* The store call that follows the handler, then on to the next row.
InboxWorker_mark(w) ==
    /\ iwk[w].pc = "mark"
    /\ LET msg == Head(iwk[w].batch) IN
        inbox' = IF iwk[w].res = "nil"
                 THEN InboxStore_MarkAsProcessed(inbox, msg.id)
                 ELSE IF InboxWorker_retryExhausted(msg, MaxRetries)
                      THEN InboxStore_MarkAsFailed(inbox, msg.id, "err")
                      ELSE InboxStore_IncrementRetryAndMarkPending(inbox, msg.id, "err")
    /\ iwk' = InboxWorker_next(w)
    /\ UNCHANGED hcalls
    /\ InboxOnly

\* The same store call failing with a database error: it is only logged.
InboxWorker_markDbError(w) ==
    /\ iwk[w].pc = "mark"
    /\ iwk' = InboxWorker_next(w)
    /\ UNCHANGED <<inbox, hcalls>>
    /\ InboxOnly

InboxWorker_crash(w) ==
    /\ iwk[w].pc \in {"idle", "handle", "mark"}
    /\ iwk' = [iwk EXCEPT ![w].pc = "crashed"]
    /\ UNCHANGED <<inbox, hcalls>>
    /\ InboxOnly

InboxTimePasses ==
    /\ Older(inbox) # inbox
    /\ inbox' = Older(inbox)
    /\ UNCHANGED <<iwk, hcalls>>
    /\ InboxOnly

StoreIdle ==
    /\ call = <<>>
    /\ tx = <<>>

InventoryIdle ==
    /\ inventory = <<>>
    /\ inventoryMu = 0
    /\ reserve = <<>>

MetricsIdle ==
    /\ once = <<>>
    /\ registry = <<>>
    /\ inits = <<>>

ServiceIdle ==
    /\ main = <<>>
    /\ inboxWorkers = <<>>
    /\ outboxWorkers = <<>>
    /\ InventoryIdle
    /\ MetricsIdle

GuardIdle ==
    /\ whinbox = <<>>
    /\ ready = <<>>
    /\ sends = <<>>
    /\ cons = <<>>
    /\ wcalls = <<>>
    /\ acks = <<>>
    /\ dupAcks = <<>>
    /\ rejects = 0

OutboxIdle ==
    /\ outbox = <<>>
    /\ owk = <<>>
    /\ brokerUp = TRUE
    /\ outages = 0
    /\ pubOk = <<>>
    /\ pubFail = <<>>

InitInbox ==
    /\ OutboxIdle
    /\ GuardIdle
    /\ StoreIdle
    /\ ServiceIdle
    /\ inbox = <<>>
    /\ iwk = [w \in InboxWorkers |-> NewInboxWorker]
    /\ hcalls = <<>>

NextInbox ==
    \/ CreateInboxMessage
    \/ \E w \in InboxWorkers : InboxWorker_Start(w)
    \/ \E w \in InboxWorkers : InboxWorker_processMessages(w)
    \/ \E w \in InboxWorkers : InboxWorker_handle(w)
    \/ \E w \in InboxWorkers : InboxWorker_mark(w)
    \/ \E w \in InboxWorkers : InboxWorker_markDbError(w)
    \/ \E w \in InboxWorkers : InboxWorker_crash(w)
    \/ InboxTimePasses

SpecInbox == InitInbox /\ [][NextInbox]_vars

\* The inbox workers of one running process in which no worker disappears,
\* no store call fails and no lease outlives the lease interval.
NextInboxSteady ==
    \/ CreateInboxMessage
    \/ \E w \in InboxWorkers : InboxWorker_Start(w)
    \/ \E w \in InboxWorkers : InboxWorker_processMessages(w)
    \/ \E w \in InboxWorkers : InboxWorker_handle(w)
    \/ \E w \in InboxWorkers : InboxWorker_mark(w)

SpecInboxSteady == InitInbox /\ [][NextInboxSteady]_vars

InboxIdle ==
    /\ inbox = <<>>
    /\ iwk = <<>>
    /\ hcalls = <<>>

\* ----------------------------------------- InboxStore (warehouse service)
MessageIds == 1..MaxMessages

\* A delivery whose body is not the JSON of an envelope carries no message id.
Garbled == 0
Bodies == MessageIds \cup {Garbled}

WhInboxRow(messageID) == [message_id |-> messageID, status |-> "PENDING", retry_count |-> 0]

WhInboxStore_MessageExists_Never(t, messageID) == FALSE

WhInboxStore_MessageExists(t, messageID) == \E r \in DOMAIN t : t[r].message_id = messageID

\* INSERT ... ON CONFLICT (message_id) DO NOTHING; the call returns nil
\* whether or not a row was inserted.
WhInboxStore_Save(t, messageID) ==
    IF \E r \in DOMAIN t : t[r].message_id = messageID THEN t
    ELSE (Cardinality(DOMAIN t) + 1) :> WhInboxRow(messageID) @@ t

WhInboxStore_MarkAsProcessed(t, messageID) ==
    [r \in DOMAIN t |->
        IF t[r].message_id = messageID THEN [t[r] EXCEPT !.status = "processed"] ELSE t[r]]

WhInboxStore_MarkAsFailed(t, messageID) ==
    [r \in DOMAIN t |->
        IF t[r].message_id = messageID
        THEN [t[r] EXCEPT !.status = "failed", !.retry_count = @ + 1] ELSE t[r]]

\* ------------------------------------- Client.Subscribe and InboxHandler
IdleConsumer == [pc |-> "idle", msg |-> 0, res |-> "none"]

Requeue_Drop(m) == UNCHANGED ready

Requeue(m) == ready' = [ready EXCEPT ![m] = @ + 1]

\* A producer publishes message m (or a body that is no envelope); a second
\* publish of the same id is a duplicate send.
BrokerEnqueue(m) ==
    /\ sends[m] < MaxSends
    /\ sends' = [sends EXCEPT ![m] = @ + 1]
    /\ ready' = [ready EXCEPT ![m] = @ + 1]
    /\ UNCHANGED <<whinbox, cons, wcalls, acks, dupAcks, rejects>>
    /\ GuardOnly

\* The consumer loop takes the next delivery and decodes it.
Subscribe_receive(c, m) ==
    /\ cons[c].pc = "idle"
    /\ ready[m] > 0
    /\ ready' = [ready EXCEPT ![m] = @ - 1]
    /\ cons' = [cons EXCEPT ![c] = [pc |-> "exists", msg |-> m, res |-> "none"]]
    /\ UNCHANGED <<whinbox, sends, wcalls, acks, dupAcks, rejects>>
    /\ GuardOnly

\* The body of the next delivery does not decode: Nack(false, false), the
\* handler is not called and the loop goes on to the next delivery.
Subscribe_reject(c) ==
    /\ cons[c].pc = "idle"
    /\ ready[Garbled] > 0
    /\ ready' = [ready EXCEPT ![Garbled] = @ - 1]
    /\ rejects' = rejects + 1
    /\ UNCHANGED <<whinbox, sends, cons, wcalls, acks, dupAcks>>
    /\ GuardOnly

\* store.MessageExists: a duplicate returns nil and is acknowledged.
InboxHandler_exists(c) ==
    /\ cons[c].pc = "exists"
    /\ LET m == cons[c].msg IN
        IF WhInboxStore_MessageExists(whinbox, m)
        THEN /\ cons' = [cons EXCEPT ![c] = IdleConsumer]
             /\ acks' = [acks EXCEPT ![m] = @ + 1]
             /\ dupAcks' = [dupAcks EXCEPT ![m] = @ + 1]
        ELSE /\ cons' = [cons EXCEPT ![c].pc = "save"]
             /\ UNCHANGED <<acks, dupAcks>>
    /\ UNCHANGED <<whinbox, ready, sends, wcalls, rejects>>
    /\ GuardOnly

\* store.Save
InboxHandler_save(c) ==
    /\ cons[c].pc = "save"
    /\ whinbox' = WhInboxStore_Save(whinbox, cons[c].msg)
    /\ cons' = [cons EXCEPT ![c].pc = "handler"]
    /\ UNCHANGED <<ready, sends, wcalls, acks, dupAcks, rejects>>
    /\ GuardOnly

\* handler(msg): the business handler returns nil or an error.
InboxHandler_handler(c) ==
    /\ cons[c].pc = "handler"
    /\ wcalls' = [wcalls EXCEPT ![cons[c].msg] = @ + 1]
    /\ \E res \in {"nil", "err"} : cons' = [cons EXCEPT ![c].pc = "mark", ![c].res = res]
    /\ UNCHANGED <<whinbox, ready, sends, acks, dupAcks, rejects>>
    /\ GuardOnly

\* After the handler: MarkAsFailed and the error back to Subscribe, which
\* nacks with requeue; or MarkAsProcessed and nil, which Subscribe acks.
InboxHandler_mark(c) ==
    /\ cons[c].pc = "mark"
    /\ LET m == cons[c].msg IN
        IF cons[c].res = "err"
        THEN /\ whinbox' = WhInboxStore_MarkAsFailed(whinbox, m)
             /\ Requeue(m)
             /\ UNCHANGED acks
        ELSE /\ whinbox' = WhInboxStore_MarkAsProcessed(whinbox, m)
             /\ acks' = [acks EXCEPT ![m] = @ + 1]
             /\ UNCHANGED ready
    /\ cons' = [cons EXCEPT ![c] = IdleConsumer]
    /\ UNCHANGED <<sends, wcalls, dupAcks, rejects>>
    /\ GuardOnly

\* A store call of the guard fails with a database error: the guard returns
\* an error (the handler's own, after a failed MarkAsFailed) and Subscribe
\* nacks with requeue.
InboxHandler_dbError(c) ==
    /\ cons[c].pc \in {"exists", "save", "mark"}
    /\ Requeue(cons[c].msg)
    /\ cons' = [cons EXCEPT ![c] = IdleConsumer]
    /\ UNCHANGED <<whinbox, sends, wcalls, acks, dupAcks, rejects>>
    /\ GuardOnly

\* The consumer's process dies holding an unacknowledged delivery; the broker
\* requeues it and the restarted process consumes again.
Consumer_crash(c) ==
    /\ cons[c].pc # "idle"
    /\ Requeue(cons[c].msg)
    /\ cons' = [cons EXCEPT ![c] = IdleConsumer]
    /\ UNCHANGED <<whinbox, sends, wcalls, acks, dupAcks, rejects>>
    /\ GuardOnly

InitGuardWith(consumers) ==
    /\ OutboxIdle
    /\ InboxIdle
    /\ StoreIdle
    /\ ServiceIdle
    /\ whinbox = <<>>
    /\ ready = [b \in Bodies |-> 0]
    /\ sends = [b \in Bodies |-> 0]
    /\ cons = [c \in consumers |-> IdleConsumer]
    /\ wcalls = [m \in MessageIds |-> 0]
    /\ acks = [m \in MessageIds |-> 0]
    /\ dupAcks = [m \in MessageIds |-> 0]
    /\ rejects = 0

NextGuard ==
    \/ \E b \in Bodies : BrokerEnqueue(b)
    \/ \E c \in DOMAIN cons : Subscribe_reject(c)
    \/ \E c \in DOMAIN cons, m \in MessageIds : Subscribe_receive(c, m)
    \/ \E c \in DOMAIN cons : InboxHandler_exists(c)
    \/ \E c \in DOMAIN cons : InboxHandler_save(c)
    \/ \E c \in DOMAIN cons : InboxHandler_handler(c)
    \/ \E c \in DOMAIN cons : InboxHandler_mark(c)
    \/ \E c \in DOMAIN cons : InboxHandler_dbError(c)
    \/ \E c \in DOMAIN cons : Consumer_crash(c)

\* One Subscribe call, as the warehouse service makes: one consumer loop,
\* which settles a delivery before it takes the next.
InitGuard == InitGuardWith({"c1"})
SpecGuard == InitGuard /\ [][NextGuard]_vars

\* Two consumer loops on the queue (two instances of the service).
InitGuardRace == InitGuardWith({"c1", "c2"})
SpecGuardRace == InitGuardRace /\ [][NextGuard]_vars

\* ------------------------------------------------ the stores, called directly
WhInboxStore_SaveResult(t, messageID) == "nil"

NoCall == [store |-> "none", op |-> "none", message_id |-> 0, existed |-> FALSE, ret |-> "none"]

\* InboxStore.Save of the order service, called with any message id.
Call_InboxStore_Save(m, kind) ==
    /\ inbox' = InboxStore_Save(inbox, m, kind)
    /\ call' = [store |-> "order", op |-> "Save", message_id |-> m,
                existed |-> InboxStore_Exists(inbox, m),
                ret |-> InboxStore_SaveResult(inbox, m)]
    /\ UNCHANGED <<iwk, hcalls, tx>>
    /\ UNCHANGED <<outboxVars, guardVars, serviceVars, inventoryVars, metricsVars>>

\* MarkAsProcessed of the order service's store on an existing row.
Call_InboxStore_MarkAsProcessed(id) ==
    /\ id \in DOMAIN inbox
    /\ inbox' = InboxStore_MarkAsProcessed(inbox, id)
    /\ call' = [store |-> "order", op |-> "MarkAsProcessed",
                message_id |-> inbox[id].message_id, existed |-> TRUE, ret |-> "nil"]
    /\ UNCHANGED <<iwk, hcalls, tx>>
    /\ UNCHANGED <<outboxVars, guardVars, serviceVars, inventoryVars, metricsVars>>

\* InboxStore.Save of the warehouse service, called with any message id.
Call_WhInboxStore_Save(m) ==
    /\ whinbox' = WhInboxStore_Save(whinbox, m)
    /\ call' = [store |-> "warehouse", op |-> "Save", message_id |-> m,
                existed |-> WhInboxStore_MessageExists(whinbox, m),
                ret |-> WhInboxStore_SaveResult(whinbox, m)]
    /\ UNCHANGED <<ready, sends, cons, wcalls, acks, dupAcks, rejects, tx>>
    /\ UNCHANGED <<outboxVars, inboxVars, serviceVars, inventoryVars, metricsVars>>

\* MarkAsProcessed of the warehouse service's store.
Call_WhInboxStore_MarkAsProcessed(m) ==
    /\ WhInboxStore_MessageExists(whinbox, m)
    /\ whinbox' = WhInboxStore_MarkAsProcessed(whinbox, m)
    /\ call' = [store |-> "warehouse", op |-> "MarkAsProcessed", message_id |-> m,
                existed |-> TRUE, ret |-> "nil"]
    /\ UNCHANGED <<ready, sends, cons, wcalls, acks, dupAcks, rejects, tx>>
    /\ UNCHANGED <<outboxVars, inboxVars, serviceVars, inventoryVars, metricsVars>>

InitStore ==
    /\ OutboxIdle
    /\ inbox = <<>> /\ iwk = <<>> /\ hcalls = <<>>
    /\ whinbox = <<>> /\ ready = <<>> /\ sends = <<>> /\ cons = <<>>
    /\ wcalls = <<>> /\ acks = <<>> /\ dupAcks = <<>> /\ rejects = 0
    /\ call = NoCall
    /\ tx = <<>>
    /\ ServiceIdle

NextStore ==
    \/ \E m \in MessageIds, kind \in {k \in InboxKinds : k.event_type \in RegisteredEventTypes
                                                        /\ ~k.fails /\ k.failures = 0} :
          Call_InboxStore_Save(m, kind)
    \/ \E id \in 1..MaxMessages : Call_InboxStore_MarkAsProcessed(id)
    \/ \E m \in MessageIds : Call_WhInboxStore_Save(m)
    \/ \E m \in MessageIds : Call_WhInboxStore_MarkAsProcessed(m)

SpecStore == InitStore /\ [][NextStore]_vars

\* ------------------------------- the lease statement, row lock by row lock
RECURSIVE Ascending(_)
Ascending(S) ==
    IF S = {} THEN <<>>
    ELSE LET m == CHOOSE x \in S : \A y \in S : x <= y
         IN <<m>> \o Ascending(S \ {m})

NoTx == [phase |-> "none", limit |-> 0, cands |-> <<>>, got |-> {}, skipped |-> {}]

Lease_eligible_AnyStatus(w) ==
    IF w \in OutboxWorkers THEN DOMAIN outbox ELSE DOMAIN inbox

\* The rows the subselect's WHERE accepts, on the latest committed versions.
Lease_eligible(w) ==
    IF w \in OutboxWorkers THEN OutboxStore_Eligible(outbox)
    ELSE InboxStore_Eligible(inbox, MaxRetries)

\* Another statement in progress holds the row's lock.
Lease_rowLocked(w, r) ==
    \E v \in DOMAIN tx \ {w} : tx[v].phase = "scan" /\ r \in tx[v].got

Lease_canLock_Always(w, r) == TRUE

\* FOR UPDATE SKIP LOCKED: the row is taken if no other statement holds its
\* lock and its latest version still passes the WHERE.
Lease_canLock(w, r) == ~Lease_rowLocked(w, r) /\ r \in Lease_eligible(w)

\* The statement starts: its snapshot fixes the candidate rows, oldest first.
Lease_begin(w) ==
    /\ tx[w].phase = "none"
    /\ \E n \in 1..BatchSize :
          tx' = [tx EXCEPT ![w] = [phase |-> "scan", limit |-> n,
                                   cands |-> Ascending(Lease_eligible(w)),
                                   got |-> {}, skipped |-> {}]]
    /\ UNCHANGED <<outbox, inbox>>

\* The subselect visits its next candidate.
Lease_scan(w) ==
    /\ tx[w].phase = "scan"
    /\ tx[w].cands # <<>>
    /\ Cardinality(tx[w].got) < tx[w].limit
    /\ LET r == Head(tx[w].cands) IN
        tx' = [tx EXCEPT ![w].cands = Tail(@),
                         ![w].got = IF Lease_canLock(w, r) THEN @ \cup {r} ELSE @,
                         ![w].skipped = IF Lease_rowLocked(w, r) THEN @ \cup {r} ELSE @]
    /\ UNCHANGED <<outbox, inbox>>

\* The UPDATE is applied to the locked rows, the statement commits and
\* returns them; the row locks are released.
Lease_commit(w) ==
    /\ tx[w].phase = "scan"
    /\ tx[w].cands = <<>> \/ Cardinality(tx[w].got) = tx[w].limit
    /\ tx' = [tx EXCEPT ![w].phase = "done"]
    /\ IF w \in OutboxWorkers
       THEN /\ outbox' = [r \in DOMAIN outbox |->
                            IF r \in tx[w].got
                            THEN [outbox[r] EXCEPT !.status = "PROCESSING",
                                                   !.locked_at = Now, !.locked_by = w]
                            ELSE outbox[r]]
            /\ UNCHANGED inbox
       ELSE /\ inbox' = [r \in DOMAIN inbox |->
                            IF r \in tx[w].got
                            THEN [inbox[r] EXCEPT !.status = "PROCESSING",
                                                  !.locked_at = Now, !.locked_by = w]
                            ELSE inbox[r]]
            /\ UNCHANGED outbox

LeaseFrame ==
    UNCHANGED <<owk, brokerUp, outages, pubOk, pubFail, iwk, hcalls, guardVars, call,
                serviceVars, inventoryVars, metricsVars>>

\* Rows as the workers leave them between lease calls.
LeaseOutboxRows ==
    {OutboxRow(TRUE),
     [OutboxRow(TRUE) EXCEPT !.status = "PUBLISHED"],
     [OutboxRow(TRUE) EXCEPT !.status = "FAILED", !.retry_count = 1, !.error = "err"]}

LeaseInboxRows ==
    {[InboxRow(m, k) EXCEPT !.status = st.status, !.retry_count = st.retry_count] :
        m \in {0}, k \in {CHOOSE k \in InboxKinds : k.fails},
        st \in {[status |-> "PENDING", retry_count |-> 0],
                [status |-> "PENDING", retry_count |-> 1],
                [status |-> "FAILED", retry_count |-> MaxRetries],
                [status |-> "PROCESSED", retry_count |-> 0]}}

InitLease ==
    /\ \/ /\ outbox \in [1..MaxRows -> LeaseOutboxRows]
          /\ inbox = <<>>
          /\ tx = [w \in OutboxWorkers |-> NoTx]
       \/ /\ outbox = <<>>
          /\ \E t \in [1..MaxRows -> LeaseInboxRows] :
                inbox = [r \in 1..MaxRows |-> [t[r] EXCEPT !.message_id = r]]
          /\ tx = [w \in InboxWorkers |-> NoTx]
    /\ owk = <<>> /\ brokerUp = TRUE /\ outages = 0 /\ pubOk = <<>> /\ pubFail = <<>>
    /\ iwk = <<>> /\ hcalls = <<>>
    /\ GuardIdle
    /\ call = <<>>
    /\ ServiceIdle

NextLease ==
    \/ \E w \in DOMAIN tx : Lease_begin(w) /\ LeaseFrame
    \/ \E w \in DOMAIN tx : Lease_scan(w) /\ LeaseFrame
    \/ \E w \in DOMAIN tx : Lease_commit(w) /\ LeaseFrame

SpecLease == InitLease /\ [][NextLease]_vars

InitOutbox ==
    /\ InboxIdle
    /\ GuardIdle
    /\ StoreIdle
    /\ ServiceIdle
    /\ outbox = <<>>
    /\ owk = [w \in OutboxWorkers |-> NewOutboxWorker]
    /\ brokerUp = TRUE
    /\ outages = 0
    /\ pubOk = <<>>
    /\ pubFail = <<>>

NextOutbox ==
    \/ SaveOutbox
    \/ \E w \in OutboxWorkers : OutboxWorker_Start(w)
    \/ \E w \in OutboxWorkers : OutboxWorker_processMessages(w)
    \/ \E w \in OutboxWorkers : OutboxWorker_processMessage(w)
    \/ \E w \in OutboxWorkers : OutboxWorker_mark(w)
    \/ \E w \in OutboxWorkers : OutboxWorker_markDbError(w)
    \/ \E w \in OutboxWorkers : OutboxWorker_crash(w)
    \/ OutboxTimePasses
    \/ BrokerDown
    \/ BrokerRecovers

SpecOutbox == InitOutbox /\ [][NextOutbox]_vars

\* The workers of one running process: none disappears, and the scheduler
\* and the ticker let each of them take its next step.
NextOutboxLive ==
    \/ SaveOutbox
    \/ \E w \in OutboxWorkers : OutboxWorker_Start(w)
    \/ \E w \in OutboxWorkers : OutboxWorker_processMessages(w)
    \/ \E w \in OutboxWorkers : OutboxWorker_processMessage(w)
    \/ \E w \in OutboxWorkers : OutboxWorker_mark(w)
    \/ \E w \in OutboxWorkers : OutboxWorker_markDbError(w)
    \/ BrokerDown
    \/ BrokerRecovers

OutboxFairness ==
    /\ \A w \in OutboxWorkers : WF_vars(OutboxWorker_Start(w))
    /\ \A w \in OutboxWorkers : WF_vars(OutboxWorker_processMessages(w))
    /\ \A w \in OutboxWorkers : WF_vars(OutboxWorker_processMessage(w))
    /\ \A w \in OutboxWorkers : WF_vars(OutboxWorker_mark(w))
    /\ WF_vars(BrokerRecovers)

SpecOutboxLive == InitOutbox /\ [][NextOutboxLive]_vars /\ OutboxFairness

\* ------------------------------------- order service: cmd/server main
\* main of the order service and the goroutines it starts.  The stores are
\* left out: a tick of a worker leases some rows or none.
WorkerCount == 3

NilClient == "nil"
DialedClient == "client"

ServiceOnly ==
    UNCHANGED <<outboxVars, inboxVars, guardVars, storeVars, inventoryVars, metricsVars>>

\* The value of main's variable rabbitMQClient after the if-block: the block
\* declares a second variable of that name with := and the outer one keeps
\* its zero value.
Main_rabbitMQClient(outer, dialed) == outer

\* The deferred calls of main: cancel() and, when the block ran, Close() of
\* the client dialed there.
Main_deferred(m) ==
    [m EXCEPT !.ctx = "done", !.conn = IF m.conn = "none" THEN "none" ELSE "closed"]

Main_alive == main.pc \notin {"exited", "panicked"}

Main_connect ==
    /\ main.pc = "connect"
    /\ IF main.EnableBroker
       THEN \E ok \in BOOLEAN :
               main' = IF ok
                       THEN [main EXCEPT !.pc = "startInbox", !.conn = "open",
                                         !.rabbitMQClient =
                                             Main_rabbitMQClient(@, DialedClient)]
                       ELSE [main EXCEPT !.pc = "exited"]
       ELSE main' = [main EXCEPT !.pc = "startInbox"]
    /\ UNCHANGED <<inboxWorkers, outboxWorkers>>
    /\ ServiceOnly

\* One turn of the loop that creates an inbox worker and runs go worker.Start.
Main_startInboxWorker ==
    /\ main.pc = "startInbox"
    /\ inboxWorkers' = Append(inboxWorkers, [pc |-> "go", stopCh |-> "open"])
    /\ main' = [main EXCEPT !.pc = IF Len(inboxWorkers) + 1 = WorkerCount
                                   THEN "startOutbox" ELSE @]
    /\ UNCHANGED outboxWorkers
    /\ ServiceOnly

\* The same for an outbox worker, which is handed rabbitMQClient.
Main_startOutboxWorker ==
    /\ main.pc = "startOutbox"
    /\ outboxWorkers' = Append(outboxWorkers,
                               [pc |-> "go", stopCh |-> "open",
                                publisher |-> main.rabbitMQClient])
    /\ main' = [main EXCEPT !.pc = IF Len(outboxWorkers) + 1 = WorkerCount
                                   THEN "serve" ELSE @]
    /\ UNCHANGED inboxWorkers
    /\ ServiceOnly

\* <-sigChan, then cancel().
Main_signal ==
    /\ main.pc = "serve"
    /\ main' = [main EXCEPT !.pc = "stopInbox", !.ctx = "done"]
    /\ UNCHANGED <<inboxWorkers, outboxWorkers>>
    /\ ServiceOnly

\* worker.Stop() closes the worker's stopCh and waits for nothing.
Main_stopInboxWorkers ==
    /\ main.pc = "stopInbox"
    /\ inboxWorkers' = [i \in DOMAIN inboxWorkers |->
                           [inboxWorkers[i] EXCEPT !.stopCh = "closed"]]
    /\ main' = [main EXCEPT !.pc = "stopOutbox"]
    /\ UNCHANGED outboxWorkers
    /\ ServiceOnly

Main_stopOutboxWorkers ==
    /\ main.pc = "stopOutbox"
    /\ outboxWorkers' = [i \in DOMAIN outboxWorkers |->
                            [outboxWorkers[i] EXCEPT !.stopCh = "closed"]]
    /\ main' = [main EXCEPT !.pc = "sleep"]
    /\ UNCHANGED inboxWorkers
    /\ ServiceOnly

\* time.Sleep(2 * time.Second): the workers are not joined.
Main_sleep ==
    /\ main.pc = "sleep"
    /\ main' = [main EXCEPT !.pc = "close"]
    /\ UNCHANGED <<inboxWorkers, outboxWorkers>>
    /\ ServiceOnly

\* rabbitMQClient.Close() when the broker is enabled.  Close reads c.channel:
\* on a nil client that is a nil pointer dereference, main panics and its
\* deferred calls run.
Main_close ==
    /\ main.pc = "close"
    /\ main' = IF ~main.EnableBroker THEN [main EXCEPT !.pc = "return"]
               ELSE IF main.rabbitMQClient = NilClient
               THEN [Main_deferred(main) EXCEPT !.pc = "panicked"]
               ELSE [main EXCEPT !.pc = "return", !.conn = "closed"]
    /\ UNCHANGED <<inboxWorkers, outboxWorkers>>
    /\ ServiceOnly

\* main returns: the deferred calls run and the process ends.
Main_return ==
    /\ main.pc = "return"
    /\ main' = [Main_deferred(main) EXCEPT !.pc = "exited"]
    /\ UNCHANGED <<inboxWorkers, outboxWorkers>>
    /\ ServiceOnly

\* The select of a worker's Start loop can take ctx.Done() or stopCh.
Service_quit(wk) == main.ctx = "done" \/ wk.stopCh = "closed"

\* A tick's lease statement runs under ctx: it fails once ctx is cancelled,
\* and otherwise returns rows or none.
Service_leased(rows) == main.ctx # "done" /\ rows

\* go worker.Start(ctx): ResetStuckMessages, then the select loop.
Service_InboxWorker_Start(i) ==
    /\ Main_alive
    /\ inboxWorkers[i].pc = "go"
    /\ inboxWorkers' = [inboxWorkers EXCEPT ![i].pc = "select"]
    /\ UNCHANGED <<main, outboxWorkers>>
    /\ ServiceOnly

Service_InboxWorker_return(i) ==
    /\ Main_alive
    /\ inboxWorkers[i].pc = "select"
    /\ Service_quit(inboxWorkers[i])
    /\ inboxWorkers' = [inboxWorkers EXCEPT ![i].pc = "returned"]
    /\ UNCHANGED <<main, outboxWorkers>>
    /\ ServiceOnly

\* case <-ticker.C: processMessages leases a batch.
Service_InboxWorker_tick(i) ==
    /\ Main_alive
    /\ inboxWorkers[i].pc = "select"
    /\ \E rows \in BOOLEAN :
          inboxWorkers' = [inboxWorkers EXCEPT
                              ![i].pc = IF Service_leased(rows) THEN "handle" ELSE @]
    /\ UNCHANGED <<main, outboxWorkers>>
    /\ ServiceOnly

\* The handler and the finalize call for the leased rows, back to the select.
Service_InboxWorker_handle(i) ==
    /\ Main_alive
    /\ inboxWorkers[i].pc = "handle"
    /\ inboxWorkers' = [inboxWorkers EXCEPT ![i].pc = "select"]
    /\ UNCHANGED <<main, outboxWorkers>>
    /\ ServiceOnly

Service_OutboxWorker_Start(i) ==
    /\ Main_alive
    /\ outboxWorkers[i].pc = "go"
    /\ outboxWorkers' = [outboxWorkers EXCEPT ![i].pc = "select"]
    /\ UNCHANGED <<main, inboxWorkers>>
    /\ ServiceOnly

Service_OutboxWorker_return(i) ==
    /\ Main_alive
    /\ outboxWorkers[i].pc = "select"
    /\ Service_quit(outboxWorkers[i])
    /\ outboxWorkers' = [outboxWorkers EXCEPT ![i].pc = "returned"]
    /\ UNCHANGED <<main, inboxWorkers>>
    /\ ServiceOnly

Service_OutboxWorker_tick(i) ==
    /\ Main_alive
    /\ outboxWorkers[i].pc = "select"
    /\ \E rows \in BOOLEAN :
          outboxWorkers' = [outboxWorkers EXCEPT
                               ![i].pc = IF Service_leased(rows) THEN "publish" ELSE @]
    /\ UNCHANGED <<main, inboxWorkers>>
    /\ ServiceOnly

\* processMessage calls w.publisher.Publish for a leased row, which takes no
\* context.  Publish reads c.channel: on a nil client the goroutine panics
\* and the process dies.  Otherwise the call goes to the connection, open or
\* closed, and the worker finalizes the row and returns to the select.
Service_OutboxWorker_publish(i) ==
    /\ Main_alive
    /\ outboxWorkers[i].pc = "publish"
    /\ IF outboxWorkers[i].publisher = NilClient
       THEN /\ outboxWorkers' = [outboxWorkers EXCEPT ![i].pc = "panic"]
            /\ main' = [main EXCEPT !.pc = "panicked"]
       ELSE /\ outboxWorkers' = [outboxWorkers EXCEPT ![i].pc = "select"]
            /\ main' = [main EXCEPT
                           !.published = @ \/ main.conn = "open",
                           !.publishedAfterClose = @ \/ main.conn = "closed"]
    /\ UNCHANGED inboxWorkers
    /\ ServiceOnly

InitService ==
    /\ OutboxIdle
    /\ InboxIdle
    /\ GuardIdle
    /\ StoreIdle
    /\ InventoryIdle
    /\ MetricsIdle
    /\ \E enable \in BOOLEAN :
          main = [pc |-> "connect", EnableBroker |-> enable,
                  rabbitMQClient |-> NilClient, conn |-> "none", ctx |-> "live",
                  published |-> FALSE, publishedAfterClose |-> FALSE]
    /\ inboxWorkers = <<>>
    /\ outboxWorkers = <<>>

NextService ==
    \/ Main_connect
    \/ Main_startInboxWorker
    \/ Main_startOutboxWorker
    \/ Main_signal
    \/ Main_stopInboxWorkers
    \/ Main_stopOutboxWorkers
    \/ Main_sleep
    \/ Main_close
    \/ Main_return
    \/ \E i \in DOMAIN inboxWorkers : Service_InboxWorker_Start(i)
    \/ \E i \in DOMAIN inboxWorkers : Service_InboxWorker_return(i)
    \/ \E i \in DOMAIN inboxWorkers : Service_InboxWorker_tick(i)
    \/ \E i \in DOMAIN inboxWorkers : Service_InboxWorker_handle(i)
    \/ \E i \in DOMAIN outboxWorkers : Service_OutboxWorker_Start(i)
    \/ \E i \in DOMAIN outboxWorkers : Service_OutboxWorker_return(i)
    \/ \E i \in DOMAIN outboxWorkers : Service_OutboxWorker_tick(i)
    \/ \E i \in DOMAIN outboxWorkers : Service_OutboxWorker_publish(i)

SpecService == InitService /\ [][NextService]_vars

\* ------------------------------------------- ResetStuckMessages, called
\* ResetStuckMessages of either store called directly, with any timeout, on
\* tables as workers and crashed workers leave them.
LockAges == {Now[1], ClockStep, LeaseIntervalMinutes + 1}

ResetTimeouts == {Now[1], ResetTimeoutMinutes}

ResetOutboxRows ==
    {OutboxRow(TRUE),
     [OutboxRow(TRUE) EXCEPT !.status = "PUBLISHED"],
     [OutboxRow(TRUE) EXCEPT !.status = "FAILED", !.retry_count = 1, !.error = "err"]}
    \cup {[OutboxRow(TRUE) EXCEPT !.status = "PROCESSING", !.locked_at = <<a>>,
                                  !.locked_by = "ow1"] : a \in LockAges}

ResetInboxRows ==
    {InboxRow(0, CHOOSE k \in InboxKinds : k.fails),
     [InboxRow(0, CHOOSE k \in InboxKinds : k.fails) EXCEPT !.status = "PROCESSED"]}
    \cup {[InboxRow(0, CHOOSE k \in InboxKinds : k.fails) EXCEPT
              !.status = "PROCESSING", !.retry_count = n, !.locked_at = <<a>>,
              !.locked_by = "iw1"] : a \in LockAges, n \in {0, 1}}

ResetFrame ==
    UNCHANGED <<owk, brokerUp, outages, pubOk, pubFail, iwk, hcalls, guardVars, tx,
                serviceVars, inventoryVars, metricsVars>>

\* The call before this one, when that was a ResetStuckMessages too: its
\* timeout and the count it returned.
Reset_prior ==
    IF call.op = "ResetStuckMessages" THEN <<call.timeoutMinutes, call.ret>> ELSE <<>>

\* The count returned is the statement's RowsAffected.
Call_OutboxStore_ResetStuckMessages(timeoutMinutes) ==
    /\ outbox # <<>>
    /\ outbox' = OutboxStore_ResetStuckMessages(outbox, timeoutMinutes)
    /\ call' = [store |-> "outbox", op |-> "ResetStuckMessages",
                timeoutMinutes |-> timeoutMinutes,
                ret |-> Cardinality(OutboxStore_Stuck(outbox, timeoutMinutes)),
                prior |-> Reset_prior]
    /\ UNCHANGED inbox
    /\ ResetFrame

Call_InboxStore_ResetStuckMessages(timeoutMinutes) ==
    /\ inbox # <<>>
    /\ inbox' = InboxStore_ResetStuckMessages(inbox, timeoutMinutes)
    /\ call' = [store |-> "inbox", op |-> "ResetStuckMessages",
                timeoutMinutes |-> timeoutMinutes,
                ret |-> Cardinality(InboxStore_Stuck(inbox, timeoutMinutes)),
                prior |-> Reset_prior]
    /\ UNCHANGED outbox
    /\ ResetFrame

\* Time passes between two calls.
Reset_TimePasses ==
    /\ Older(outbox) # outbox \/ Older(inbox) # inbox
    /\ outbox' = Older(outbox)
    /\ inbox' = Older(inbox)
    /\ call' = [store |-> "none", op |-> "TimePasses", timeoutMinutes |-> 0, ret |-> 0,
                prior |-> <<>>]
    /\ ResetFrame

InitReset ==
    /\ \/ outbox \in [1..MaxRows -> ResetOutboxRows] /\ inbox = <<>>
       \/ /\ outbox = <<>>
          /\ \E t \in [1..MaxRows -> ResetInboxRows] :
                inbox = [r \in 1..MaxRows |-> [t[r] EXCEPT !.message_id = r]]
    /\ owk = <<>> /\ brokerUp = TRUE /\ outages = 0 /\ pubOk = <<>> /\ pubFail = <<>>
    /\ iwk = <<>> /\ hcalls = <<>>
    /\ GuardIdle
    /\ ServiceIdle
    /\ call = [store |-> "none", op |-> "none", timeoutMinutes |-> 0, ret |-> 0,
               prior |-> <<>>]
    /\ tx = <<>>

NextReset ==
    \/ \E timeoutMinutes \in ResetTimeouts : Call_OutboxStore_ResetStuckMessages(timeoutMinutes)
    \/ \E timeoutMinutes \in ResetTimeouts : Call_InboxStore_ResetStuckMessages(timeoutMinutes)
    \/ Reset_TimePasses

SpecReset == InitReset /\ [][NextReset]_vars

\* ------------------------------------- outbox rows with all their columns
\* Save, the lease and processMessage on rows that carry the columns the
\* other sections leave out: message_id, event_type, payload, exchange,
\* routing_key, created_at.
DefaultExchange == "orders"

EventTypes == {"order.created", "order.updated"}

\* json.Marshal of a payload and json.Unmarshal of the stored column.
Marshal(payload) == <<"json", payload>>
Unmarshal(column) == <<"map", column[2]>>

\* The INSERT of Save names message_id, event_type, payload and status; the
\* schema's defaults fill the rest: exchange 'orders', routing_key NULL.
FullOutboxRow(messageID, eventType, payloadJSON, createdAt) ==
    [message_id |-> messageID, event_type |-> eventType, payload |-> payloadJSON,
     status |-> "PENDING", retry_count |-> 0, exchange |-> DefaultExchange,
     routing_key |-> NULL, error |-> NULL, locked_at |-> NullTime, locked_by |-> NULL,
     created_at |-> createdAt, decodable |-> TRUE]

\* uuid.New(): a random id, which a row may hold already.
NewUUID(t) == 1..(Cardinality(DOMAIN t) + 1)

\* message_id is UNIQUE: the INSERT of an id some row holds fails, and a
\* failed INSERT uses up no row.
FullOutboxStore_Save(t, messageID, eventType, payload) ==
    IF \E r \in DOMAIN t : t[r].message_id = messageID THEN t
    ELSE (Cardinality(DOMAIN t) + 1) :>
             FullOutboxRow(messageID, eventType, Marshal(payload), Cardinality(DOMAIN t) + 1)
         @@ t

\* What Save returns: the message id and nil, or "" (here 0) and an error.
FullOutboxStore_SaveResult(t, messageID) ==
    IF \E r \in DOMAIN t : t[r].message_id = messageID
    THEN [messageID |-> 0, err |-> TRUE]
    ELSE [messageID |-> messageID, err |-> FALSE]

\* The OutboxMessage the lease's RETURNING list fills: exchange and
\* routing_key are not in the list, so those two fields keep Go's zero value.
OutboxStore_Returning(t, id) ==
    [ID |-> id, MessageID |-> t[id].message_id, EventType |-> t[id].event_type,
     Payload |-> t[id].payload, CreatedAt |-> t[id].created_at,
     RetryCount |-> t[id].retry_count, Exchange |-> "", RoutingKey |-> ""]

\* processMessage: the envelope and where it is published.
OutboxWorker_envelope(msg) ==
    [ID |-> msg.MessageID, Type |-> msg.EventType, Payload |-> Unmarshal(msg.Payload),
     Timestamp |-> msg.CreatedAt]

OutboxWorker_exchange(msg) == IF msg.Exchange = "" THEN "orders" ELSE msg.Exchange

OutboxWorker_routingKey(msg) == IF msg.RoutingKey = "" THEN msg.EventType ELSE msg.RoutingKey

\* Rows other producers of the table may have written: another exchange, a
\* routing key of their own, the status in the lower case of the older
\* stores.
RouteRows ==
    {[FullOutboxRow(0, e, Marshal("p"), 0) EXCEPT
         !.exchange = x, !.routing_key = k, !.status = st] :
        e \in EventTypes, x \in {DefaultExchange, "inventory"}, k \in {NULL, "orders.eu"},
        st \in {"PENDING", "pending"}}

NoRouteCall ==
    [op |-> "none", id |-> 0, eventType |-> "none",
     ret |-> [messageID |-> 0, err |-> FALSE], batch |-> <<>>,
     published |-> <<>>]

RouteFrame ==
    UNCHANGED <<owk, brokerUp, outages, pubOk, pubFail, inboxVars, guardVars, tx,
                serviceVars, inventoryVars, metricsVars>>

Route_Save(eventType, payload) ==
    /\ call.batch = <<>>
    /\ Cardinality(DOMAIN outbox) < MaxRows
    /\ \E messageID \in NewUUID(outbox) :
          /\ outbox' = FullOutboxStore_Save(outbox, messageID, eventType, payload)
          /\ call' = [NoRouteCall EXCEPT
                         !.op = "Save", !.eventType = eventType,
                         !.ret = FullOutboxStore_SaveResult(outbox, messageID)]
    /\ RouteFrame

Route_lease(w) ==
    /\ call.batch = <<>>
    /\ outbox' = OutboxStore_GetPendingMessagesForProcessing(outbox, w, BatchSize)
    /\ \E b \in Perms(OutboxStore_Selected(outbox, BatchSize)) :
          call' = [NoRouteCall EXCEPT
                      !.op = "lease",
                      !.batch = [i \in DOMAIN b |-> OutboxStore_Returning(outbox, b[i])]]
    /\ RouteFrame

Route_processMessage ==
    /\ call.batch # <<>>
    /\ LET msg == Head(call.batch) IN
       /\ call' = [call EXCEPT !.op = "Publish", !.id = msg.ID, !.batch = Tail(@),
                               !.published = [exchange |-> OutboxWorker_exchange(msg),
                                              routingKey |-> OutboxWorker_routingKey(msg),
                                              message |-> OutboxWorker_envelope(msg)]]
       /\ outbox' = OutboxStore_MarkAsPublished(outbox, msg.ID)
    /\ RouteFrame

InitRoute ==
    /\ \/ outbox = <<>>
       \/ \E t \in [1..(MaxRows - 1) -> RouteRows] :
             outbox = [r \in 1..(MaxRows - 1) |->
                          [t[r] EXCEPT !.message_id = r, !.created_at = r]]
    /\ owk = <<>> /\ brokerUp = TRUE /\ outages = 0 /\ pubOk = <<>> /\ pubFail = <<>>
    /\ InboxIdle
    /\ GuardIdle
    /\ ServiceIdle
    /\ call = NoRouteCall
    /\ tx = <<>>

NextRoute ==
    \/ \E eventType \in EventTypes : Route_Save(eventType, "p")
    \/ Route_lease("ow1")
    \/ Route_processMessage

SpecRoute == InitRoute /\ [][NextRoute]_vars

\* ------------------------------------------ the workers and their caller
\* The workers on their own: a caller has created them and run Start(ctx)
\* on each, and raises the two stop signals of a worker, cancel() of ctx and
\* worker.Stop(), in any order.
Caller_cancel ==
    /\ main.ctx = "live"
    /\ main' = [main EXCEPT !.ctx = "done"]
    /\ UNCHANGED <<inboxWorkers, outboxWorkers>>
    /\ ServiceOnly

\* Stop: close(w.stopCh).
InboxWorker_Stop(i) ==
    /\ inboxWorkers[i].stopCh = "open"
    /\ inboxWorkers' = [inboxWorkers EXCEPT ![i].stopCh = "closed"]
    /\ UNCHANGED <<main, outboxWorkers>>
    /\ ServiceOnly

OutboxWorker_Stop(i) ==
    /\ outboxWorkers[i].stopCh = "open"
    /\ outboxWorkers' = [outboxWorkers EXCEPT ![i].stopCh = "closed"]
    /\ UNCHANGED <<main, inboxWorkers>>
    /\ ServiceOnly

InitWorkers ==
    /\ OutboxIdle
    /\ InboxIdle
    /\ GuardIdle
    /\ StoreIdle
    /\ InventoryIdle
    /\ MetricsIdle
    /\ main = [pc |-> "serve", EnableBroker |-> TRUE,
               rabbitMQClient |-> DialedClient, conn |-> "open", ctx |-> "live",
               published |-> FALSE, publishedAfterClose |-> FALSE]
    /\ inboxWorkers = [i \in 1..WorkerCount |-> [pc |-> "go", stopCh |-> "open"]]
    /\ outboxWorkers = [i \in 1..WorkerCount |->
                           [pc |-> "go", stopCh |-> "open", publisher |-> DialedClient]]

NextWorkers ==
    \/ Caller_cancel
    \/ \E i \in DOMAIN inboxWorkers : InboxWorker_Stop(i)
    \/ \E i \in DOMAIN outboxWorkers : OutboxWorker_Stop(i)
    \/ \E i \in DOMAIN inboxWorkers : Service_InboxWorker_Start(i)
    \/ \E i \in DOMAIN inboxWorkers : Service_InboxWorker_return(i)
    \/ \E i \in DOMAIN inboxWorkers : Service_InboxWorker_tick(i)
    \/ \E i \in DOMAIN inboxWorkers : Service_InboxWorker_handle(i)
    \/ \E i \in DOMAIN outboxWorkers : Service_OutboxWorker_Start(i)
    \/ \E i \in DOMAIN outboxWorkers : Service_OutboxWorker_return(i)
    \/ \E i \in DOMAIN outboxWorkers : Service_OutboxWorker_tick(i)
    \/ \E i \in DOMAIN outboxWorkers : Service_OutboxWorker_publish(i)

SpecWorkers == InitWorkers /\ [][NextWorkers]_vars

\* ------------------------------------------------------------- claims
\* Either service on its own inbox table: the order service's inbox workers,
\* or the warehouse service's consumer loop with the ingress guard.
InitInboxes == InitInbox \/ InitGuard

NextInboxes ==
    \/ iwk # <<>> /\ NextInbox
    \/ cons # <<>> /\ NextGuard

SpecInboxes == InitInboxes /\ [][NextInboxes]_vars

\* The two relays of the order service, each on its own table: the outbox
\* workers or the inbox workers.
InitRelays == InitOutbox \/ InitInbox

NextRelays ==
    \/ owk # <<>> /\ NextOutbox
    \/ iwk # <<>> /\ NextInbox

SpecRelays == InitRelays /\ [][NextRelays]_vars

\* The same workers with every finalizing store call succeeding; workers
\* still disappear, leases still age and the broker still fails.
NextRelaysFinalizing ==
    \/ /\ owk # <<>>
       /\ \/ SaveOutbox
          \/ \E w \in OutboxWorkers : OutboxWorker_Start(w)
          \/ \E w \in OutboxWorkers : OutboxWorker_processMessages(w)
          \/ \E w \in OutboxWorkers : OutboxWorker_processMessage(w)
          \/ \E w \in OutboxWorkers : OutboxWorker_mark(w)
          \/ \E w \in OutboxWorkers : OutboxWorker_crash(w)
          \/ OutboxTimePasses
          \/ BrokerDown
          \/ BrokerRecovers
    \/ /\ iwk # <<>>
       /\ \/ CreateInboxMessage
          \/ \E w \in InboxWorkers : InboxWorker_Start(w)
          \/ \E w \in InboxWorkers : InboxWorker_processMessages(w)
          \/ \E w \in InboxWorkers : InboxWorker_handle(w)
          \/ \E w \in InboxWorkers : InboxWorker_mark(w)
          \/ \E w \in InboxWorkers : InboxWorker_crash(w)
          \/ InboxTimePasses

SpecRelaysFinalizing == InitRelays /\ [][NextRelaysFinalizing]_vars

\* ------------------------------------------- a tick whose lease call fails
Worker_skipTick_Stops(wk) == [wk EXCEPT !.pc = "crashed"]

\* if err != nil { log; return }: processMessages returns to the select loop
\* of Start, the worker as it was before the tick.
Worker_skipTick(wk) == wk

\* The failed ticks so far are told apart by the worker and a bit that flips.
Tick_failed(w) == <<w, IF call = <<>> THEN 1 ELSE 1 - call[2]>>

\* GetPendingMessagesForProcessing returns an error: the statement changed
\* no row and processMessages returns at once.
OutboxWorker_leaseDbError(w) ==
    /\ owk[w].pc = "idle"
    /\ owk' = [owk EXCEPT ![w] = Worker_skipTick(@)]
    /\ call' = Tick_failed(w)
    /\ UNCHANGED <<outbox, brokerUp, outages, pubOk, pubFail, tx>>
    /\ UNCHANGED <<inboxVars, guardVars, serviceVars, inventoryVars, metricsVars>>

InboxWorker_leaseDbError(w) ==
    /\ iwk[w].pc = "idle"
    /\ iwk' = [iwk EXCEPT ![w] = Worker_skipTick(@)]
    /\ call' = Tick_failed(w)
    /\ UNCHANGED <<inbox, hcalls, tx>>
    /\ UNCHANGED <<outboxVars, guardVars, serviceVars, inventoryVars, metricsVars>>

\* The workers of one running process, some of whose lease calls fail.
NextTicks ==
    \/ owk # <<>> /\ NextOutboxLive
    \/ \E w \in DOMAIN owk : OutboxWorker_leaseDbError(w)
    \/ iwk # <<>> /\ NextInboxSteady
    \/ \E w \in DOMAIN iwk : InboxWorker_leaseDbError(w)

SpecTicks == InitRelays /\ [][NextTicks]_vars

OutboxHolders(r) ==
    {w \in OutboxWorkers : owk[w].pc \in {"publish", "mark"}
                           /\ \E i \in 1..Len(owk[w].batch) : owk[w].batch[i] = r}

C6_AbandonedRowLeasable ==
    \A r \in DOMAIN outbox :
        ( /\ outbox[r].status = "PROCESSING"
          /\ OlderThan(outbox[r].locked_at, LeaseIntervalMinutes)
          /\ owk[outbox[r].locked_by].pc = "crashed"
          /\ \E w \in OutboxWorkers : owk[w].pc = "idle" )
        => r \in OutboxStore_Eligible(outbox)

\* C7 as stated: at most one worker is processing a given row.
C7_AtMostOneHolder ==
    \A r \in DOMAIN outbox : Cardinality(OutboxHolders(r)) <= 1

\* C9 as stated: once a row is FAILED no lease returns it and no Publish call
\* is made for it.
C9_FailedNeverPublishedAgain ==
    [][\A r \in DOMAIN outbox :
          outbox[r].status = "FAILED"
          => /\ outbox'[r].status # "PROCESSING"
             /\ pubOk'[r] = pubOk[r]
             /\ pubFail'[r] = pubFail[r]]_vars

\* C10: a row becomes PUBLISHED only in the mark step of a worker whose
\* Publish call for that row returned success in the same cycle.
C10_PublishedOnlyAfterPublishOk ==
    [][\A r \in DOMAIN outbox :
          (outbox[r].status # "PUBLISHED" /\ outbox'[r].status = "PUBLISHED")
          => /\ pubOk[r] >= 1
             /\ \E w \in OutboxWorkers :
                   /\ owk[w].pc = "mark" /\ owk[w].res = "ok"
                   /\ Head(owk[w].batch) = r
                   /\ owk'[w].batch = Tail(owk[w].batch)]_vars

C10_Witness ==
    \E r, q \in DOMAIN outbox :
        /\ outbox[r].status = "PUBLISHED" /\ pubOk[r] = 1
        /\ outbox[q].status = "FAILED" /\ pubOk[q] = 0 /\ pubFail[q] = 1

InboxHolders(r) ==
    {w \in InboxWorkers : iwk[w].pc \in {"handle", "mark"}
                          /\ \E i \in 1..Len(iwk[w].batch) : iwk[w].batch[i].id = r}

WhRows(m) == {r \in DOMAIN whinbox : whinbox[r].message_id = m}

\* C2: with the deliveries of a queue handled one after another, however
\* often a message id is sent or redelivered, the guarded handler is invoked
\* for it at most once, the inbox holds at most one row for it (exactly one
\* once a delivery got past the existence check and saved), no delivery
\* gets past the existence check while the row exists, and every
\* acknowledgement beyond the one that follows the handler is a duplicate's.
C2_HandlerAtMostOncePerMessageId ==
    \A m \in MessageIds :
        /\ wcalls[m] <= 1
        /\ Cardinality(WhRows(m)) <= 1
        /\ (wcalls[m] >= 1 \/ acks[m] >= 1) => Cardinality(WhRows(m)) = 1
        /\ acks[m] - dupAcks[m] <= wcalls[m]
        /\ \A c \in DOMAIN cons :
              (cons[c].msg = m /\ cons[c].pc = "save") => WhRows(m) = {}

\* The same id was sent twice; the handler ran once and the later delivery
\* was acknowledged as a duplicate.
C2_Witness ==
    \E m \in MessageIds :
        /\ sends[m] = 2
        /\ wcalls[m] = 1
        /\ dupAcks[m] >= 1
        /\ ready[m] = 0
        /\ \A c \in DOMAIN cons : cons[c].pc = "idle"

\* C3: of two deliveries of one message id in flight at once, at most one
\* has had the handler invoked. (Each is past its Save, so each passed the
\* existence check before the other's Save.)
C3_OnlyOneRacerInvokesHandler ==
    \A m \in MessageIds :
        Cardinality({c \in DOMAIN cons : cons[c].msg = m /\ cons[c].pc = "mark"}) <= 1

\* C8 as stated: a Save with a message id that already has a row returns no
\* error, adds no row and leaves every row as it was, in either inbox store.
C8_SaveOfExistingIdSucceeds ==
    [][(call'.op = "Save" /\ call'.existed)
          => (call'.ret = "nil" /\ inbox' = inbox /\ whinbox' = whinbox)]_vars

\* C1: the rows locked or returned by the lease statements of two callers on
\* one table are disjoint, and a returned row carries its caller's lock.
C1_LeaseExclusive ==
    /\ \A w, v \in DOMAIN tx : w # v => tx[w].got \cap tx[v].got = {}
    /\ \A w \in DOMAIN tx \cap OutboxWorkers : \A r \in tx[w].got :
          tx[w].phase = "done" => (outbox[r].status = "PROCESSING" /\ outbox[r].locked_by = w)
    /\ \A w \in DOMAIN tx \cap InboxWorkers : \A r \in tx[w].got :
          tx[w].phase = "done" => (inbox[r].status = "PROCESSING" /\ inbox[r].locked_by = w)

\* Two overlapping calls both returned rows, one of them having skipped a
\* row the other held locked.
C1_Witness ==
    \E w \in DOMAIN tx : \E v \in DOMAIN tx \ {w} :
        /\ tx[w].phase = "done" /\ tx[v].phase = "done"
        /\ tx[w].got # {} /\ tx[v].got # {}
        /\ tx[w].skipped # {}
        /\ tx[w].skipped \subseteq tx[v].got

\* C11: every outbox row with status PROCESSING has locked_at and locked_by
\* set, and every row with status PUBLISHED or FAILED has both null.
C11_OutboxLockFields ==
    \A r \in DOMAIN outbox :
        /\ outbox[r].status = "PROCESSING"
              => (outbox[r].locked_at # NullTime /\ outbox[r].locked_by # NULL)
        /\ outbox[r].status \in {"PUBLISHED", "FAILED"}
              => (outbox[r].locked_at = NullTime /\ outbox[r].locked_by = NULL)

\* One row is leased by a worker while another, leased before, has reached
\* PUBLISHED or FAILED.
C11_Witness ==
    \E r, q \in DOMAIN outbox :
        /\ outbox[r].status = "PROCESSING" /\ outbox[r].locked_by \in OutboxWorkers
        /\ outbox[q].status \in {"PUBLISHED", "FAILED"}
        /\ pubOk[q] + pubFail[q] >= 1

InboxStatusDAG ==
    {<<"PENDING", "PROCESSING">>, <<"PROCESSING", "PROCESSED">>,
     <<"PROCESSING", "PENDING">>, <<"PROCESSING", "FAILED">>}

\* The warehouse service's store writes the terminal statuses in lower case.
StatusName(s) ==
    IF s = "processed" THEN "PROCESSED" ELSE IF s = "failed" THEN "FAILED" ELSE s

\* C12 as stated: every status change of an inbox row, in the order
\* service's table or in the warehouse service's, is an edge of the DAG
\* PENDING -> PROCESSING -> {PROCESSED, PENDING, FAILED}.
C12_InboxStatusChangesFollowDAG ==
    [][/\ \A r \in DOMAIN inbox :
             (r \in DOMAIN inbox' /\ inbox'[r].status # inbox[r].status)
                => <<inbox[r].status, inbox'[r].status>> \in InboxStatusDAG
       /\ \A r \in DOMAIN whinbox :
             (r \in DOMAIN whinbox' /\ whinbox'[r].status # whinbox[r].status)
                => <<StatusName(whinbox[r].status), StatusName(whinbox'[r].status)>>
                      \in InboxStatusDAG]_vars

\* C13 as stated: in either service's inbox table a row with status FAILED
\* has retry_count >= maxRetries.
C13_FailedOnlyWhenBudgetExhausted ==
    /\ \A r \in DOMAIN inbox :
          inbox[r].status = "FAILED" => inbox[r].retry_count >= MaxRetries
    /\ \A r \in DOMAIN whinbox :
          StatusName(whinbox[r].status) = "FAILED" => whinbox[r].retry_count >= MaxRetries

\* C13 amended: in the order service's inbox table, the one the inbox workers
\* finalize, a row with status FAILED has retry_count >= maxRetries and its
\* error set.
C13_WorkerFailedOnlyWhenBudgetExhausted ==
    \A r \in DOMAIN inbox :
        inbox[r].status = "FAILED"
            => (inbox[r].retry_count >= MaxRetries /\ inbox[r].error # NULL)

\* A row was marked FAILED by a worker after maxRetries handler errors.
C13_Witness ==
    \E r \in DOMAIN inbox :
        /\ inbox[r].status = "FAILED"
        /\ inbox[r].retry_count = MaxRetries
        /\ hcalls[r] >= MaxRetries

\* C14: a row whose handler fails on its first k invocations and then
\* succeeds, 0 < k < maxRetries, is never FAILED; whenever it is back in
\* PENDING its retry_count equals the number of handler invocations so far
\* (one more per failed attempt, at most k); the handler is invoked at most
\* k + 1 times; and when the row is PROCESSED its retry_count is k after
\* k + 1 invocations.
C14_TransientFailureEndsProcessed ==
    \A r \in DOMAIN inbox :
        (inbox[r].failures > 0 /\ inbox[r].event_type \in RegisteredEventTypes)
        => LET k == inbox[r].failures IN
           /\ inbox[r].status # "FAILED"
           /\ hcalls[r] <= k + 1
           /\ inbox[r].retry_count <= k
           /\ inbox[r].status = "PENDING"
                 => (inbox[r].retry_count = hcalls[r] /\ hcalls[r] <= k)
           /\ inbox[r].status = "PROCESSED"
                 => (inbox[r].retry_count = k /\ hcalls[r] = k + 1)

\* The stated scenario: maxRetries = 3, the handler failed twice and
\* succeeded on the third attempt.
C14_Witness ==
    \E r \in DOMAIN inbox :
        /\ inbox[r].failures = MaxRetries - 1
        /\ inbox[r].status = "PROCESSED"
        /\ inbox[r].retry_count = MaxRetries - 1
        /\ hcalls[r] = MaxRetries

\* C15: for a row whose event type is "unknown.type", which no handler is
\* registered for: no registered handler is ever invoked, retry_count stays
\* 0 and no error is recorded, the row is never FAILED, a worker that
\* finalizes it marks it PROCESSED, and once PROCESSED the row never changes
\* again (it is not leased again).
C15_UnknownTypeMarkedProcessed ==
    [][\A r \in DOMAIN inbox' :
          inbox'[r].event_type = "unknown.type"
          => /\ hcalls'[r] = 0
             /\ inbox'[r].retry_count = 0
             /\ inbox'[r].error = NULL
             /\ inbox'[r].status # "FAILED"
             /\ r \in DOMAIN inbox
                => /\ inbox[r].status = "PROCESSED" => inbox'[r] = inbox[r]
                   /\ \A w \in InboxWorkers :
                         ( /\ iwk[w].pc = "mark"
                           /\ Head(iwk[w].batch).id = r
                           /\ iwk'[w] # iwk[w]
                           /\ iwk'[w].pc # "crashed"
                           /\ inbox' # inbox )
                         => inbox'[r].status = "PROCESSED"]_vars

\* A row of unknown type was processed without any handler running, while
\* the handler of a registered type ran for another row.
C15_Witness ==
    \E r, q \in DOMAIN inbox :
        /\ inbox[r].event_type = "unknown.type"
        /\ inbox[r].status = "PROCESSED"
        /\ hcalls[r] = 0
        /\ inbox[q].event_type \in RegisteredEventTypes
        /\ hcalls[q] >= 1

\* C16 as stated: the batch a lease call hands to its worker is the oldest
\* eligible rows, up to the batch size, in ascending order of creation.
C16_BatchOldestFirst ==
    [][\A w \in OutboxWorkers :
          (owk[w].pc = "idle" /\ owk'[w].pc = "publish")
          => owk'[w].batch = Ascending(OldestN(OutboxStore_Eligible(outbox), BatchSize))]_vars

InHand(b) == Cardinality({c \in DOMAIN cons : cons[c].pc # "idle" /\ cons[c].msg = b})

\* C17: every delivery is settled exactly once. A body that does not decode
\* is rejected without requeue, the handler not being called and the loop
\* staying ready for the next delivery. A delivery the loop hands to the
\* handler is acknowledged only when the handler (the guard) returned nil,
\* and put back on the queue otherwise; the loop is then ready for the next
\* delivery. So every body sent is waiting, in a consumer's hands, or was
\* acknowledged (rejected, for a body that does not decode) exactly once.
C17_EveryDeliverySettledOnce ==
    [][/\ \A m \in MessageIds : sends'[m] = ready'[m] + InHand(m)' + acks'[m]
       /\ sends'[Garbled] = ready'[Garbled] + rejects'
       /\ rejects' # rejects
             => (rejects' = rejects + 1 /\ ready'[Garbled] = ready[Garbled] - 1
                 /\ wcalls' = wcalls /\ acks' = acks /\ cons' = cons)
       /\ \A c \in DOMAIN cons :
             (cons[c].pc # "idle" /\ cons'[c].pc = "idle")
             => LET m == cons[c].msg IN
                \/ /\ acks' = [acks EXCEPT ![m] = @ + 1]
                   /\ ready' = ready
                   /\ \/ cons[c].pc = "exists" /\ WhInboxStore_MessageExists(whinbox, m)
                      \/ cons[c].pc = "mark" /\ cons[c].res = "nil"
                \/ /\ acks' = acks
                   /\ ready' = [ready EXCEPT ![m] = @ + 1]]_vars

\* One body was rejected, one delivery was acknowledged after the handler
\* succeeded, and one was put back on the queue after the handler failed.
C17_Witness ==
    /\ rejects >= 1
    /\ \E m, n \in MessageIds :
          /\ acks[m] >= 1 /\ wcalls[m] = 1
          /\ \E r \in WhRows(m) : whinbox[r].status = "processed"
          /\ \E r \in WhRows(n) : whinbox[r].status = "failed"
          /\ ready[n] >= 1 /\ acks[n] = 0
    /\ \A c \in DOMAIN cons : cons[c].pc = "idle"

\* C18 (happy path end to end): an outbox row of a registered type, with no
\* failure anywhere, is received by the broker in one publish and ends
\* PUBLISHED.  In the running service with the broker enabled this needs the
\* Publish call an outbox worker makes for a leased row to return after
\* handing the row to the connection: no worker dies in that call.
C18_LeasedRowPublishReturns ==
    main.EnableBroker => \A i \in DOMAIN outboxWorkers : outboxWorkers[i].pc # "panic"

\* C19: with ENABLE_BROKER false the service starts no outbox worker and no
\* inbox worker.
C19_NoWorkersWhenBrokerDisabled ==
    ~main.EnableBroker => inboxWorkers = <<>> /\ outboxWorkers = <<>>

\* C20: the broker connection is closed only after every outbox worker has
\* finished its current cycle (no worker is between its lease and the end of
\* processMessages when the connection is closed), and no Publish is issued
\* on the connection after Close.
C20_ClosedOnlyAfterWorkersFinished ==
    /\ main.conn = "closed" =>
          \A i \in DOMAIN outboxWorkers : outboxWorkers[i].pc # "publish"
    /\ ~main.publishedAfterClose

\* C21: once ctx is cancelled or Stop has been called on a worker, that
\* worker leases no new batch: from its select it never goes on to handle or
\* publish rows of a batch leased after the signal.
C21_NoLeaseAfterSignal ==
    [][/\ \A i \in DOMAIN inboxWorkers :
             (inboxWorkers[i].pc = "select" /\ Service_quit(inboxWorkers[i]))
             => inboxWorkers'[i].pc # "handle"
       /\ \A i \in DOMAIN outboxWorkers :
             (outboxWorkers[i].pc = "select" /\ Service_quit(outboxWorkers[i]))
             => outboxWorkers'[i].pc # "publish"]_vars

\* What ResetStuck with a 5-minute timeout is to do to one row.
C22_Reset(row) ==
    IF row.status = "PROCESSING" /\ row.locked_at # NullTime /\ row.locked_at[1] > 5
    THEN [row EXCEPT !.status = "PENDING", !.locked_at = NullTime, !.locked_by = NULL]
    ELSE row

C22_Starts(wk) == \E w \in DOMAIN wk : wk[w].pc = "new" /\ wk'[w].pc # "new"

\* C22: a worker calls ResetStuck(5 min) once on start, before its first
\* lease: the step that takes a worker out of Start moves exactly the
\* PROCESSING rows locked for more than 5 minutes to PENDING with the lock
\* fields cleared and retry_count kept, and leaves every other row as it was
\* (or changes nothing, when the statement fails and the error is logged); a
\* worker that has not started holds no batch; and no later step of a worker
\* returns a PROCESSING row to PENDING with its retry_count unchanged.
C22_ResetStuckOnceOnStart ==
    [][/\ C22_Starts(owk) =>
             \/ outbox' = [r \in DOMAIN outbox |-> C22_Reset(outbox[r])]
             \/ outbox' = outbox
       /\ C22_Starts(iwk) =>
             \/ inbox' = [r \in DOMAIN inbox |-> C22_Reset(inbox[r])]
             \/ inbox' = inbox
       /\ \A w \in DOMAIN owk : owk[w].pc = "new" => owk'[w].pc \in {"new", "idle"}
       /\ \A w \in DOMAIN iwk : iwk[w].pc = "new" => iwk'[w].pc \in {"new", "idle"}
       /\ ~C22_Starts(owk) =>
             \A r \in DOMAIN outbox :
                ~(outbox[r].status = "PROCESSING" /\ outbox'[r].status = "PENDING")
       /\ ~C22_Starts(iwk) =>
             \A r \in DOMAIN inbox :
                ~(/\ inbox[r].status = "PROCESSING" /\ inbox'[r].status = "PENDING"
                  /\ inbox'[r].retry_count = inbox[r].retry_count)]_vars

\* A worker died holding a leased row, the lease grew older than 5 minutes,
\* and another worker's Start returned the row to PENDING.
C22_Witness ==
    \E w, v \in DOMAIN owk :
        /\ owk[w].pc = "crashed" /\ owk[v].pc = "idle"
        /\ \E i \in 1..Len(owk[w].batch) :
              LET row == outbox[owk[w].batch[i]] IN
              /\ row.status = "PENDING" /\ row.locked_at = NullTime
              /\ row.locked_by = NULL /\ row.retry_count = 0

\* C23: ResetStuck is idempotent: a call that follows a call with the same
\* timeout, with no operation and no passage of time in between, changes no
\* row and returns count 0.
C23_ResetStuckIdempotent ==
    [][(/\ call.op = "ResetStuckMessages" /\ call'.op = "ResetStuckMessages"
        /\ call'.timeoutMinutes = call.timeoutMinutes)
       => (outbox' = outbox /\ inbox' = inbox /\ call'.ret = 0)]_vars

\* A second call with the 5-minute timeout of the first, the first having
\* reset rows: the count is 0.
C23_Witness ==
    /\ call.op = "ResetStuckMessages" /\ call.ret = 0
    /\ call.timeoutMinutes = ResetTimeoutMinutes
    /\ call.prior # <<>>
    /\ call.prior[1] = ResetTimeoutMinutes /\ call.prior[2] > 0

\* C24: a leased row is published to the exchange and routing key stored on
\* it, "orders" standing in only for an empty exchange and the event type
\* only for an empty routing_key, and the envelope carries the row's
\* message_id, event type, payload and created_at.
C24_PublishedToStoredDestination ==
    call.op = "Publish" =>
        LET row == outbox[call.id] IN
        /\ call.published.exchange =
              IF row.exchange \in {"", NULL} THEN "orders" ELSE row.exchange
        /\ call.published.routingKey =
              IF row.routing_key \in {"", NULL} THEN row.event_type ELSE row.routing_key
        /\ call.published.message =
              [ID |-> row.message_id, Type |-> row.event_type,
               Payload |-> <<"map", row.payload[2]>>, Timestamp |-> row.created_at]

\* C25: Save inserts exactly one new row with a fresh message_id, distinct
\* from every existing row's, status PENDING, retry_count 0, null lock
\* fields, the default exchange and routing_key equal to the event type, and
\* returns that message_id.
C25_SaveStoresEventTypeAsRoutingKey ==
    [][call'.op = "Save" /\ ~call'.ret.err =>
          \E n \in DOMAIN outbox' :
             /\ DOMAIN outbox' = DOMAIN outbox \cup {n} /\ n \notin DOMAIN outbox
             /\ \A r \in DOMAIN outbox :
                   outbox'[r] = outbox[r] /\ outbox[r].message_id # call'.ret.messageID
             /\ outbox'[n].message_id = call'.ret.messageID
             /\ outbox'[n].event_type = call'.eventType
             /\ outbox'[n].status = "PENDING" /\ outbox'[n].retry_count = 0
             /\ outbox'[n].locked_at = NullTime /\ outbox'[n].locked_by = NULL
             /\ outbox'[n].exchange = "orders"
             /\ outbox'[n].routing_key = outbox'[n].event_type]_vars

\* C26: the lease accepts the legacy lower-case status: a row stored as
\* 'pending' is eligible exactly as a row stored as 'PENDING' is, so a lease
\* returns the oldest BatchSize rows among the unlocked rows of either
\* spelling.
C26_LowercasePendingLeased ==
    [][call'.op = "lease" =>
          {call'.batch[i].ID : i \in DOMAIN call'.batch}
          = OldestN({r \in DOMAIN outbox :
                        /\ outbox[r].status \in {"PENDING", "pending"}
                        /\ outbox[r].locked_at = NullTime}, BatchSize)]_vars

\* A row the lease may take: PENDING (for the inbox also FAILED under the
\* retry budget) and not locked within the last 5 minutes.
C27_Eligible(row, inboxRow) ==
    /\ \/ row.status = "PENDING"
       \/ inboxRow /\ row.status = "FAILED" /\ row.retry_count < MaxRetries
    /\ row.locked_at = NullTime \/ row.locked_at[1] > 5

\* The table after a call by w that returned the rows got.
C27_Leased(t, got, w, inboxRow) ==
    [r \in DOMAIN t |->
        IF r \in got
        THEN [t[r] EXCEPT !.status = "PROCESSING", !.locked_at = <<0>>, !.locked_by = w]
        ELSE t[r]]

\* C27: a lease call returns at most batchSize rows; every returned row was
\* eligible and after the call has status PROCESSING, locked_by the caller
\* and locked_at set, its other columns unchanged; every row not returned is
\* unchanged.
C27_LeaseEffectAndFrame ==
    [][\A w \in DOMAIN tx :
          (tx[w].phase = "scan" /\ tx'[w].phase = "done") =>
             /\ Cardinality(tx[w].got) <= tx[w].limit
             /\ tx[w].limit <= BatchSize
             /\ IF w \in OutboxWorkers
                THEN /\ \A r \in tx[w].got : C27_Eligible(outbox[r], FALSE)
                     /\ outbox' = C27_Leased(outbox, tx[w].got, w, FALSE)
                     /\ inbox' = inbox
                ELSE /\ \A r \in tx[w].got : C27_Eligible(inbox[r], TRUE)
                     /\ inbox' = C27_Leased(inbox, tx[w].got, w, TRUE)
                     /\ outbox' = outbox]_vars

\* A call has returned as many rows as its batch size allows and left an
\* eligible row behind, unchanged.
C27_Witness ==
    \E w \in DOMAIN tx :
        /\ tx[w].phase = "done"
        /\ tx[w].got # {} /\ Cardinality(tx[w].got) = tx[w].limit
        /\ \E r \in Lease_eligible(w) : r \notin tx[w].got

\* C28: when Publish or the decoding of the payload fails for a leased row,
\* the worker's MarkAsFailed makes that row FAILED with retry_count one
\* higher, error set to the failure text and the lock fields cleared (or,
\* failing with a database error, leaves the table as it was), no other row
\* changes, and the worker goes on with the remaining rows of its batch.
C28_PublishFailureDisposition ==
    [][\A w \in OutboxWorkers :
          (owk[w].pc = "mark" /\ owk[w].res = "err" /\ owk'[w].pc \in {"publish", "idle"})
          => LET id == Head(owk[w].batch) IN
              /\ \/ outbox' = outbox
                 \/ outbox' = [outbox EXCEPT ![id].status = "FAILED",
                                             ![id].retry_count = outbox[id].retry_count + 1,
                                             ![id].error = owk[w].res,
                                             ![id].locked_at = NullTime,
                                             ![id].locked_by = NULL]
              /\ owk'[w].batch = Tail(owk[w].batch)
              /\ owk'[w].pc = IF Tail(owk[w].batch) # <<>> THEN "publish" ELSE "idle"]_vars

\* The only worker running has marked a row FAILED after a failed Publish
\* and is at the next row of the same batch.
C28_Witness ==
    \E w \in OutboxWorkers : \E r \in DOMAIN outbox :
        /\ owk[w].pc = "publish" /\ Len(owk[w].batch) = 1
        /\ \A v \in OutboxWorkers \ {w} : owk[v].pc = "new"
        /\ outbox[r].status = "FAILED" /\ outbox[r].retry_count = 1
        /\ outbox[r].error = "err"
        /\ outbox[r].locked_at = NullTime /\ outbox[r].locked_by = NULL
        /\ pubFail[r] = 1 /\ pubOk[r] = 0

\* C29: with no finalizing store call failing, a worker that is between
\* processing cycles holds no row: no row with locked_by equal to its id has
\* status PROCESSING, and inside a cycle the rows it holds are rows of its
\* batch.
C29_NothingHeldBetweenCycles ==
    /\ \A w \in DOMAIN owk : \A r \in DOMAIN outbox :
          (outbox[r].status = "PROCESSING" /\ outbox[r].locked_by = w)
          => /\ owk[w].pc \notin {"new", "idle"}
             /\ \E i \in DOMAIN owk[w].batch : owk[w].batch[i] = r
    /\ \A w \in DOMAIN iwk : \A r \in DOMAIN inbox :
          (inbox[r].status = "PROCESSING" /\ inbox[r].locked_by = w)
          => /\ iwk[w].pc \notin {"new", "idle"}
             /\ \E i \in DOMAIN iwk[w].batch : iwk[w].batch[i].id = r

\* The only inbox worker running has ended a cycle over two rows: one
\* handled, the other released for a retry after its handler failed.
C29_Witness ==
    \E w \in DOMAIN iwk : \E r, q \in DOMAIN inbox :
        /\ iwk[w].pc = "idle"
        /\ \A v \in DOMAIN iwk \ {w} : iwk[v].pc = "new"
        /\ inbox[r].status = "PROCESSED" /\ hcalls[r] = 1
        /\ inbox[q].status = "PENDING" /\ inbox[q].retry_count = 1 /\ hcalls[q] = 1

\* C30 as stated: a row that a failed finalize call left PROCESSING under
\* the id of a worker that has gone on to its next cycle is, once its lock
\* is older than the lease interval, a row the lease statement selects.
C30_UnfinalizedRowReclaimed ==
    /\ \A r \in DOMAIN outbox :
          ( /\ outbox[r].status = "PROCESSING"
            /\ OlderThan(outbox[r].locked_at, LeaseIntervalMinutes)
            /\ \A w \in OutboxWorkers : owk[w].pc = "idle" )
          => r \in OutboxStore_Eligible(outbox)
    /\ \A r \in DOMAIN inbox :
          ( /\ inbox[r].status = "PROCESSING"
            /\ OlderThan(inbox[r].locked_at, LeaseIntervalMinutes)
            /\ \A w \in InboxWorkers : iwk[w].pc = "idle" )
          => r \in InboxStore_Eligible(inbox, MaxRetries)

C32_RequeuedDeliveryHandledAgain ==
    [][\A c \in DOMAIN cons :
          ( /\ cons[c].pc = "exists"
            /\ \E r \in DOMAIN whinbox :
                  /\ whinbox[r].message_id = cons[c].msg
                  /\ whinbox[r].status = "failed" )
          => dupAcks'[cons[c].msg] = dupAcks[cons[c].msg]]_vars

\* C33 as stated: a message the guard saved but whose handler has not been
\* invoked (the process died between the two) is not given up: no delivery
\* of it is acknowledged before the handler has been invoked for it.
C33_SavedMessageNotLost ==
    \A m \in MessageIds :
        (\E r \in DOMAIN whinbox : whinbox[r].message_id = m /\ whinbox[r].status = "PENDING")
        => (wcalls[m] = 0 => acks[m] = 0)

\* C34 as stated: a finalize call of a worker for a row whose locked_by is
\* no longer that worker (the lease was reset and the row re-leased or
\* finalized by another worker) leaves the table unchanged.
C34_FinalizeOnlyByHolder ==
    [][/\ \A w \in DOMAIN owk :
             ( /\ owk[w].pc = "mark" /\ owk'[w].pc \in {"publish", "idle"}
               /\ outbox[Head(owk[w].batch)].locked_by # w )
             => outbox' = outbox
       /\ \A w \in DOMAIN iwk :
             ( /\ iwk[w].pc = "mark" /\ iwk'[w].pc \in {"handle", "idle"}
               /\ inbox[Head(iwk[w].batch).id].locked_by # w )
             => inbox' = inbox]_vars

\* C35 as stated: once an outbox row is PUBLISHED or an inbox row is
\* PROCESSED, no step changes its status or its retry_count, and no Publish
\* call or handler invocation is made for it.
C35_SuccessAbsorbing ==
    [][/\ \A r \in DOMAIN outbox :
             outbox[r].status = "PUBLISHED"
             => /\ outbox'[r].status = "PUBLISHED"
                /\ outbox'[r].retry_count = outbox[r].retry_count
                /\ pubOk'[r] = pubOk[r] /\ pubFail'[r] = pubFail[r]
       /\ \A r \in DOMAIN inbox :
             inbox[r].status = "PROCESSED"
             => /\ inbox'[r].status = "PROCESSED"
                /\ inbox'[r].retry_count = inbox[r].retry_count
                /\ hcalls'[r] = hcalls[r]]_vars

\* C36 as stated: with ENABLE_BROKER true, the publisher of every outbox
\* worker, and the client main closes at shutdown, is the client that was
\* dialed at startup.
C36_WorkersPublishOnDialedClient ==
    main.EnableBroker
    => /\ \A i \in DOMAIN outboxWorkers : outboxWorkers[i].publisher = DialedClient
       /\ main.pc = "close" => main.rabbitMQClient = DialedClient

\* ------------------------------------- warehouse service: InventoryHandler
\* The stock of a product, for the 100, 50, ... of the package's table.
StockQuantity == 3
MaxRequests == 3

Requests == 1..MaxRequests

\* Two of the products of the inventory map, and an id that is not in it.
KnownProducts == {"PROD-001", "PROD-002"}
ProductIDs == KnownProducts \cup {"PROD-404"}

InventoryItem(quantity) == [Quantity |-> quantity, Reserved |-> 0]

NewRequest == [pc |-> "new", product_id |-> "", quantity |-> 0, available |-> 0, status |-> 0]

InventoryOnly ==
    UNCHANGED <<outboxVars, inboxVars, guardVars, storeVars, serviceVars, metricsVars>>

ReserveStock_insufficient_Never(available, quantity) == FALSE

\* if available < req.Quantity
ReserveStock_insufficient(available, quantity) == available < quantity

\* c.ShouldBindJSON: product_id is required and quantity must be > 0; a body
\* that fails the binding is answered with 400 before the lock is taken.
ReserveStock_bind(r) ==
    /\ reserve[r].pc = "new"
    /\ \E p \in ProductIDs, q \in 0..(StockQuantity + 1) :
          reserve' = [reserve EXCEPT ![r] =
                         IF q > 0
                         THEN [@ EXCEPT !.pc = "Lock", !.product_id = p, !.quantity = q]
                         ELSE [@ EXCEPT !.pc = "done", !.product_id = p, !.status = 400]]
    /\ UNCHANGED <<inventory, inventoryMu>>
    /\ InventoryOnly

\* inventoryMu.Lock(); defer inventoryMu.Unlock()
ReserveStock_Lock(r) ==
    /\ reserve[r].pc = "Lock"
    /\ inventoryMu = 0
    /\ inventoryMu' = r
    /\ reserve' = [reserve EXCEPT ![r].pc = "lookup"]
    /\ UNCHANGED inventory
    /\ InventoryOnly

\* item, exists := inventory[req.ProductID]; 404 if it does not exist, 409
\* if available < req.Quantity.  A response returns from the handler, which
\* runs the deferred Unlock.
ReserveStock_lookup(r) ==
    /\ reserve[r].pc = "lookup"
    /\ LET p == reserve[r].product_id IN
        IF p \notin DOMAIN inventory
        THEN /\ reserve' = [reserve EXCEPT ![r].pc = "done", ![r].status = 404]
             /\ inventoryMu' = 0
        ELSE LET available == inventory[p].Quantity - inventory[p].Reserved IN
             IF ReserveStock_insufficient(available, reserve[r].quantity)
             THEN /\ reserve' = [reserve EXCEPT ![r].pc = "done", ![r].status = 409,
                                                ![r].available = available]
                  /\ inventoryMu' = 0
             ELSE /\ reserve' = [reserve EXCEPT ![r].pc = "update",
                                                ![r].available = available]
                  /\ UNCHANGED inventoryMu
    /\ UNCHANGED inventory
    /\ InventoryOnly

\* item.Reserved += req.Quantity through the pointer in the map, then 200.
ReserveStock_update(r) ==
    /\ reserve[r].pc = "update"
    /\ inventory' = [inventory EXCEPT ![reserve[r].product_id].Reserved =
                                          @ + reserve[r].quantity]
    /\ reserve' = [reserve EXCEPT ![r].pc = "done", ![r].status = 200]
    /\ inventoryMu' = 0
    /\ InventoryOnly

InitInventory ==
    /\ OutboxIdle
    /\ InboxIdle
    /\ GuardIdle
    /\ StoreIdle
    /\ main = <<>> /\ inboxWorkers = <<>> /\ outboxWorkers = <<>>
    /\ MetricsIdle
    /\ inventory = [p \in KnownProducts |->
                       InventoryItem(IF p = "PROD-001" THEN StockQuantity
                                     ELSE StockQuantity - 1)]
    /\ inventoryMu = 0
    /\ reserve = [r \in Requests |-> NewRequest]

NextInventory ==
    \/ \E r \in Requests : ReserveStock_bind(r)
    \/ \E r \in Requests : ReserveStock_Lock(r)
    \/ \E r \in Requests : ReserveStock_lookup(r)
    \/ \E r \in Requests : ReserveStock_update(r)

SpecInventory == InitInventory /\ [][NextInventory]_vars

RECURSIVE C37_Sum(_, _)
C37_Sum(f, S) ==
    IF S = {} THEN 0
    ELSE LET x == CHOOSE x \in S : TRUE IN f[x] + C37_Sum(f, S \ {x})

\* What the granted (200) requests for product p asked for, in total.
C37_Granted(p) ==
    C37_Sum([r \in Requests |-> reserve[r].quantity],
            {r \in Requests : reserve[r].status = 200 /\ reserve[r].product_id = p})

\* C37: with ReserveStock requests running concurrently, every product has
\* 0 <= Reserved <= Quantity and Reserved is the total of the granted
\* requests; a step that changes the inventory is the update of one request
\* that asked for no more than Quantity - Reserved at that moment, and adds
\* exactly what it asked for; a request answered with 400, 404 or 409 is
\* answered in a step that leaves the inventory unchanged.
C37_ReservationInvariant ==
    /\ [](\A p \in DOMAIN inventory :
             /\ 0 <= inventory[p].Reserved
             /\ inventory[p].Reserved <= inventory[p].Quantity
             /\ inventory[p].Reserved = C37_Granted(p))
    /\ [][/\ inventory' # inventory =>
                \E r \in Requests :
                   /\ reserve'[r].status = 200 /\ reserve[r].status = 0
                   /\ LET p == reserve[r].product_id IN
                       /\ inventory[p].Quantity - inventory[p].Reserved >= reserve[r].quantity
                       /\ inventory' = [inventory EXCEPT ![p].Reserved = @ + reserve[r].quantity]
          /\ \A r \in Requests :
                (reserve'[r].status \in {400, 404, 409} /\ reserve[r].status = 0)
                => inventory' = inventory]_vars

\* A product is fully reserved by two granted requests, a third request for
\* it was refused for insufficient stock, and nobody holds the lock.
C37_Witness ==
    /\ inventoryMu = 0
    /\ \E p \in DOMAIN inventory :
          /\ inventory[p].Reserved = inventory[p].Quantity
          /\ Cardinality({r \in Requests : reserve[r].status = 200
                                           /\ reserve[r].product_id = p}) = 2
          /\ \E r \in Requests : reserve[r].status = 409 /\ reserve[r].product_id = p

\* ----------------------------------------------- metrics: InitMetrics
MaxCallers == 3

Callers == 1..MaxCallers

\* The collectors InitMetrics registers, in the order of its MustRegister
\* calls (the warehouse service's package; the order service's differs only
\* in the names of the last two).
Collectors ==
    <<"http_requests_total", "http_request_duration_seconds",
      "http_response_size_bytes", "inventory_checks_total", "stock_reservations_total">>

MetricsOnly ==
    UNCHANGED <<outboxVars, inboxVars, guardVars, storeVars, serviceVars, inventoryVars>>

Once_Do_mustRun_Always(done) == TRUE

\* sync.Once: f runs only if done is still 0, tested again under the mutex.
Once_Do_mustRun(done) == done = 0

\* InitMetrics calls once.Do: the fast path returns if done is set.
InitMetrics_Do(c) ==
    /\ inits[c].pc = "new"
    /\ inits' = [inits EXCEPT ![c].pc = IF once.done = 0 THEN "doSlow" ELSE "returned"]
    /\ UNCHANGED <<once, registry>>
    /\ MetricsOnly

\* doSlow: o.m.Lock(), then the second test of done.
Once_doSlow(c) ==
    /\ inits[c].pc = "doSlow"
    /\ once.m = 0
    /\ once' = [once EXCEPT !.m = c]
    /\ inits' = [inits EXCEPT ![c].pc = IF Once_Do_mustRun(once.done) THEN "f" ELSE "Unlock"]
    /\ UNCHANGED registry
    /\ MetricsOnly

\* The next prometheus.MustRegister of the function passed to Do: it panics
\* if the collector is registered already.  After the last one the deferred
\* done.Store(1) runs (it runs on a panic as well).
InitMetrics_MustRegister(c) ==
    /\ inits[c].pc = "f"
    /\ LET name == Collectors[inits[c].next] IN
        /\ registry' = [registry EXCEPT ![name].attempts = @ + 1,
                                        ![name].registered =
                                            IF registry[name].registered = 0 THEN 1 ELSE @]
        /\ IF registry[name].registered # 0
           THEN /\ inits' = [inits EXCEPT ![c].pc = "panic"]
                /\ once' = [once EXCEPT !.done = 1, !.m = 0]
           ELSE IF inits[c].next = Len(Collectors)
           THEN /\ inits' = [inits EXCEPT ![c].pc = "Unlock"]
                /\ once' = [once EXCEPT !.done = 1]
           ELSE /\ inits' = [inits EXCEPT ![c].next = @ + 1]
                /\ UNCHANGED once
    /\ MetricsOnly

\* The deferred o.m.Unlock(); Do and InitMetrics return.
Once_Unlock(c) ==
    /\ inits[c].pc = "Unlock"
    /\ once' = [once EXCEPT !.m = 0]
    /\ inits' = [inits EXCEPT ![c].pc = "returned"]
    /\ UNCHANGED registry
    /\ MetricsOnly

\* A caller that returned calls InitMetrics once more.
InitMetrics_again(c) ==
    /\ inits[c].pc = "returned"
    /\ inits[c].calls < MaxCallers
    /\ inits' = [inits EXCEPT ![c].pc = "new", ![c].calls = @ + 1]
    /\ UNCHANGED <<once, registry>>
    /\ MetricsOnly

InitMetricsCalls ==
    /\ OutboxIdle
    /\ InboxIdle
    /\ GuardIdle
    /\ StoreIdle
    /\ main = <<>> /\ inboxWorkers = <<>> /\ outboxWorkers = <<>>
    /\ InventoryIdle
    /\ once = [done |-> 0, m |-> 0]
    /\ registry = [name \in {Collectors[i] : i \in DOMAIN Collectors} |->
                      [registered |-> 0, attempts |-> 0]]
    /\ inits = [c \in Callers |-> [pc |-> "new", next |-> 1, calls |-> 1]]

NextMetrics ==
    \/ \E c \in Callers : InitMetrics_Do(c)
    \/ \E c \in Callers : Once_doSlow(c)
    \/ \E c \in Callers : InitMetrics_MustRegister(c)
    \/ \E c \in Callers : Once_Unlock(c)
    \/ \E c \in Callers : InitMetrics_again(c)

SpecMetrics == InitMetricsCalls /\ [][NextMetrics]_vars

\* C38: over any number of sequential and concurrent InitMetrics calls each
\* collector is the subject of at most one registration attempt, no call
\* panics, and once any call has returned every collector is registered
\* exactly once.
C38_InitMetricsIdempotent ==
    /\ \A name \in DOMAIN registry :
          registry[name].attempts <= 1 /\ registry[name].registered = registry[name].attempts
    /\ \A c \in Callers : inits[c].pc # "panic"
    /\ (\E c \in Callers : inits[c].pc = "returned" \/ inits[c].calls > 1)
       => \A name \in DOMAIN registry : registry[name].registered = 1

\* One caller ran the registrations; another, which had passed the fast
\* path before they were done, went through doSlow without running them;
\* a third has returned from its second call.
C38_Witness ==
    \E a, b, c \in Callers :
        /\ a # b /\ b # c /\ a # c
        /\ inits[a].pc = "returned" /\ inits[a].next = Len(Collectors)
        /\ inits[b].pc = "Unlock" /\ inits[b].next = 1
        /\ inits[c].pc = "returned" /\ inits[c].calls = 2

====
